---- MODULE Spec2Model ----
(***************************************************************************)
(* Financial Health Manager: the CSV ingestion and aggregation core        *)
(* (src/fhm/core.py) as a state machine.                                   *)
(*                                                                         *)
(* Python values are modelled as follows.                                  *)
(*   str    a sequence of one-character strings                            *)
(*   float  an integer number of grid units (one unit = 2^-FracBits) that  *)
(*          has at most MantDig significant bits; every arithmetic result  *)
(*          is rounded to the nearest such number, ties to even, as IEEE   *)
(*          754 does with 53 bits.  NaN is a token beside the numbers.     *)
(*   dict   a record [keys, val]: keys in insertion order, val the mapping *)
(*   date   a record [year, month, day]                                    *)
(*   set    a listing of its elements; the order in which a process        *)
(*          iterates over it is a function of the process's hash seed      *)
(*   frame  (pandas) a record [columns, rows]: the header cells and the    *)
(*          data records cut or padded to the header's width, a missing    *)
(*          value being the cell NaCell                                    *)
(* An exception raised is a token carried in place of the value, or the    *)
(* position "raised" of the function that lets it escape.                  *)
(***************************************************************************)
EXTENDS Integers, Sequences, FiniteSets, TLC

\* ------------------------------------------------------------------ bounds
\* significant bits of a float (53 in CPython)
MantDig == 5
\* fractional bits of the float grid
FracBits == 6
\* longest transaction list handed to summarize
MaxTx == 3
\* most data rows of a file handed to parse_csv
MaxRows == 3
\* largest hash seed of a process
MaxSeed == 1
\* most invocations of parse_csv on one file
MaxInvocations == 2
\* most lines of a file in front of its header line
MaxPreamble == 2

\* ------------------------------------------------------------ float model
RECURSIVE Pow2(_)
Pow2(n) == IF n <= 0 THEN 1 ELSE 2 * Pow2(n - 1)

RECURSIVE BitLen(_)
BitLen(n) == IF n <= 0 THEN 0 ELSE 1 + BitLen(n \div 2)

Abs(x) == IF x < 0 THEN -x ELSE x

Max2(a, b) == IF a >= b THEN a ELSE b

\* float("nan"): a token outside the range of the numbers the model reaches
NaN == -Pow2(30)

\* a raised ZeroDivisionError, carried in place of the value
ZeroDivisionError == -Pow2(30) - 1

\* the float nearest to the rational n/d grid units (d > 0), ties to even
RoundQ(n, d) ==
    LET mag  == Abs(n)
        k    == Max2(0, BitLen(mag \div d) - MantDig)
        den  == d * Pow2(k)
        q    == mag \div den
        r2   == 2 * (mag % den)
        up   == (r2 > den) \/ (r2 = den /\ q % 2 = 1)
        res  == (IF up THEN q + 1 ELSE q) * Pow2(k)
    IN  IF n < 0 THEN -res ELSE res

IsFloat(x) == x \in Int /\ RoundQ(x, 1) = x

\* 1.0
Unit == Pow2(FracBits)

\* float(n) for an int n
FromInt(n) == RoundQ(n * Unit, 1)

\* a + b
FAdd(a, b) == IF a = NaN \/ b = NaN THEN NaN ELSE RoundQ(a + b, 1)

\* -a
FNeg(a) == IF a = NaN THEN NaN ELSE -a

\* a - b
FSub(a, b) == FAdd(a, FNeg(b))

\* a / b, b # 0
FDiv(a, b) ==
    IF b = 0 THEN ZeroDivisionError
    ELSE IF a = NaN \/ b = NaN THEN NaN
    ELSE IF b < 0 THEN RoundQ(-(a * Unit), -b) ELSE RoundQ(a * Unit, b)

\* a * b
FMul(a, b) ==
    IF a = ZeroDivisionError \/ b = ZeroDivisionError THEN ZeroDivisionError
    ELSE IF a = NaN \/ b = NaN THEN NaN ELSE RoundQ(a * b, Unit)

\* a >= 0, a > 0 (every comparison with NaN is False)
FGe0(a) == a # NaN /\ a >= 0
FGt0(a) == a # NaN /\ a > 0

\* ---------------------------------------------------------------- strings
Digit(n) == <<"0", "1", "2", "3", "4", "5", "6", "7", "8", "9">>[n + 1]

\* str(n) for an int n >= 0: no padding
RECURSIVE IntStr(_)
IntStr(n) == IF n < 10 THEN <<Digit(n)>> ELSE IntStr(n \div 10) \o <<Digit(n % 10)>>

\* f"{n:02d}" for n >= 0
Pad2(n) == IF n < 10 THEN <<"0", Digit(n)>> ELSE IntStr(n)

\* ------------------------------------------------------------------ dicts
EmptyDict == [keys |-> <<>>, val |-> <<>>]

Range(s) == {s[i] : i \in DOMAIN s}

HasKey(d, k) == k \in Range(d.keys)

\* d[k] = v
DictSet(d, k, v) ==
    IF HasKey(d, k)
    THEN [keys |-> d.keys, val |-> [x \in Range(d.keys) |-> IF x = k THEN v ELSE d.val[x]]]
    ELSE [keys |-> Append(d.keys, k),
          val  |-> [x \in Range(d.keys) \cup {k} |-> IF x = k THEN v ELSE d.val[x]]]

\* defaultdict.__getitem__: the value under k, or the default when k is missing
DictGet(d, k, default) == IF HasKey(d, k) THEN d.val[k] ELSE default

\* list(d.values())
Values(d) == [i \in DOMAIN d.keys |-> d.val[d.keys[i]]]

\* the dict as a mapping, its insertion order forgotten
AsMap(d) == d.val

\* sum(xs) over floats: left to right from int 0
RECURSIVE SumFrom(_, _, _)
SumFrom(xs, i, acc) ==
    IF i > Len(xs) THEN acc ELSE SumFrom(xs, i + 1, FAdd(acc, xs[i]))
PySum(xs) == SumFrom(xs, 1, 0)

\* ----------------------------------------------------- savings_rate, core
\* f"{year}-{month:02d}"
MonthKey(year, month) == IntStr(year) \o <<"-">> \o Pad2(month)

Hundred == FromInt(100)

\* (income - expenses) / income * 100
RateSwapped(income, expenses) == FMul(FDiv(FSub(expenses, income), income), Hundred)
Rate(income, expenses) == FMul(FDiv(FSub(income, expenses), income), Hundred)

\* if income > 0
HasIncomeGe(values) == FGe0(values.income)
HasIncome(values) == FGt0(values.income)

\* one pass of the loop over month_data.items()
SavingsRateStep(rates, key, values) ==
    IF HasIncome(values)
    THEN DictSet(rates, MonthKey(key[1], key[2]), Rate(values.income, values.expenses))
    ELSE rates

RECURSIVE SavingsRateFrom(_, _, _)
SavingsRateFrom(month_data, i, rates) ==
    IF i > Len(month_data.keys) THEN rates
    ELSE SavingsRateFrom(month_data, i + 1,
            SavingsRateStep(rates, month_data.keys[i], month_data.val[month_data.keys[i]]))

savings_rate(month_data) == SavingsRateFrom(month_data, 1, EmptyDict)

\* the division raised in some pass: savings_rate returns nothing
SavingsRateRaises(month_data) ==
    \E k \in Range(savings_rate(month_data).keys) :
        savings_rate(month_data).val[k] = ZeroDivisionError

\* --------------------------------------------------------- summarize, core
NewBucket == [income |-> 0, expenses |-> 0]

\* category_totals[tx.category] += tx.amount
AddCategoryOverwrite(totals, tx) == DictSet(totals, tx.category, tx.amount)
AddCategoryAbs(totals, tx) ==
    DictSet(totals, tx.category, FAdd(DictGet(totals, tx.category, 0), Abs(tx.amount)))
AddCategory(totals, tx) ==
    DictSet(totals, tx.category, FAdd(DictGet(totals, tx.category, 0), tx.amount))

\* key = (tx.date.year, tx.date.month)
BucketKey(tx) == <<tx.date.year, tx.date.month>>

\* if tx.amount >= 0
IsIncome(tx) == FGe0(tx.amount)

\* by_month[key]["income"] += tx.amount  /  by_month[key]["expenses"] += -tx.amount
AddMonthSigned(months, tx) ==
    LET b == DictGet(months, BucketKey(tx), NewBucket)
    IN  DictSet(months, BucketKey(tx),
                IF IsIncome(tx)
                THEN [b EXCEPT !.income = FAdd(b.income, tx.amount)]
                ELSE [b EXCEPT !.expenses = FAdd(b.expenses, tx.amount)])
AddMonth(months, tx) ==
    LET b == DictGet(months, BucketKey(tx), NewBucket)
    IN  DictSet(months, BucketKey(tx),
                IF IsIncome(tx)
                THEN [b EXCEPT !.income = FAdd(b.income, tx.amount)]
                ELSE [b EXCEPT !.expenses = FAdd(b.expenses, FNeg(tx.amount))])

\* overall = sum(category_totals.values())
OverallPositive(totals) ==
    PySum([i \in DOMAIN totals.keys |-> Max2(0, totals.val[totals.keys[i]])])
Overall(totals) == PySum(Values(totals))

\* Summary(category_totals=..., savings_rate=savings_rate(by_month), overall_balance=overall)
MakeSummary(totals, months) ==
    [category_totals |-> totals,
     savings_rate    |-> savings_rate(months),
     overall_balance |-> Overall(totals)]

\* the whole of summarize as a function of its argument
RECURSIVE SummarizeFrom(_, _, _, _)
SummarizeFrom(txs, i, totals, months) ==
    IF i > Len(txs) THEN MakeSummary(totals, months)
    ELSE SummarizeFrom(txs, i + 1, AddCategory(totals, txs[i]), AddMonth(months, txs[i]))

Summarize(txs) == SummarizeFrom(txs, 1, EmptyDict, EmptyDict)

\* ------------------------------------------------------- str methods used
Whitespace == {" ", "\t", "\n", "\r"}

RECURSIVE LStrip(_)
LStrip(s) == IF s # <<>> /\ Head(s) \in Whitespace THEN LStrip(Tail(s)) ELSE s

RECURSIVE RStrip(_)
RStrip(s) ==
    IF s # <<>> /\ s[Len(s)] \in Whitespace THEN RStrip(SubSeq(s, 1, Len(s) - 1)) ELSE s

\* s.strip()
Strip(s) == RStrip(LStrip(s))

UpperLetters ==
    <<"A", "B", "C", "D", "E", "F", "G", "H", "I", "J", "K", "L", "M",
      "N", "O", "P", "Q", "R", "S", "T", "U", "V", "W", "X", "Y", "Z">>
LowerLetters ==
    <<"a", "b", "c", "d", "e", "f", "g", "h", "i", "j", "k", "l", "m",
      "n", "o", "p", "q", "r", "s", "t", "u", "v", "w", "x", "y", "z">>

\* upper-case letter -> lower-case letter
ToLower ==
    [c \in {UpperLetters[i] : i \in DOMAIN UpperLetters} |->
        LowerLetters[CHOOSE i \in DOMAIN UpperLetters : UpperLetters[i] = c]]

LowerChar(c) == IF c \in DOMAIN ToLower THEN ToLower[c] ELSE c

\* s.lower()
Lower(s) == [i \in DOMAIN s |-> LowerChar(s[i])]

\* s.replace(ch, "")
Remove(s, ch) == SelectSeq(s, LAMBDA c : c # ch)

\* s.split(sep) for a one-character sep: always at least one part
RECURSIVE SplitFrom(_, _, _, _, _)
SplitFrom(s, sep, i, cur, parts) ==
    IF i > Len(s) THEN Append(parts, cur)
    ELSE IF s[i] = sep THEN SplitFrom(s, sep, i + 1, <<>>, Append(parts, cur))
    ELSE SplitFrom(s, sep, i + 1, Append(cur, s[i]), parts)
Split(s, sep) == SplitFrom(s, sep, 1, <<>>, <<>>)

Digits == {"0", "1", "2", "3", "4", "5", "6", "7", "8", "9"}

AllDigits(s) == \A i \in DOMAIN s : s[i] \in Digits

DigitVal(c) == CHOOSE n \in 0..9 : Digit(n) = c

\* int(s) for a string of digits
RECURSIVE IntOf(_)
IntOf(s) == IF s = <<>> THEN 0 ELSE 10 * IntOf(SubSeq(s, 1, Len(s) - 1)) + DigitVal(s[Len(s)])

RECURSIVE Pow10(_)
Pow10(n) == IF n <= 0 THEN 1 ELSE 10 * Pow10(n - 1)

\* the position (from 0) of the first element of s equal to x, -1 when there is none
IndexOf(s, x) ==
    IF \E i \in DOMAIN s : s[i] = x
    THEN (CHOOSE i \in DOMAIN s : s[i] = x /\ \A j \in 1..(i - 1) : s[j] # x) - 1
    ELSE -1

\* ------------------------------------------------------ _parse_date, core
IsLeap(y) == (y % 4 = 0 /\ y % 100 # 0) \/ y % 400 = 0

DaysInMonth(y, m) ==
    IF m = 2 THEN (IF IsLeap(y) THEN 29 ELSE 28)
    ELSE IF m \in {4, 6, 9, 11} THEN 30 ELSE 31

\* a raised ValueError, carried in place of the value
ValueError == -Pow2(30) - 2

DateError == [ok |-> FALSE]

\* date(y, m, d), or ValueError when there is no such day
MakeDate(y, m, d) ==
    IF y >= 1 /\ m \in 1..12 /\ d >= 1 /\ d <= DaysInMonth(y, m)
    THEN [ok |-> TRUE, date |-> [year |-> y, month |-> m, day |-> d]]
    ELSE DateError

\* %m and %d: one or two digits
IsOneOrTwoDigits(s) == Len(s) \in {1, 2} /\ AllDigits(s)

\* %y: two digits, 69-99 in the 1900s and 00-68 in the 2000s
TwoDigitYearThisCentury(s) == 2000 + IntOf(s)
TwoDigitYear(s) == IF IntOf(s) >= 69 THEN 1900 + IntOf(s) ELSE 2000 + IntOf(s)

\* datetime.strptime(text, "%Y-%m-%d").date()
StrptimeIso(text) ==
    LET p == Split(text, "-")
    IN  IF Len(p) = 3 /\ Len(p[1]) = 4 /\ AllDigits(p[1])
           /\ IsOneOrTwoDigits(p[2]) /\ IsOneOrTwoDigits(p[3])
        THEN MakeDate(IntOf(p[1]), IntOf(p[2]), IntOf(p[3]))
        ELSE DateError

\* datetime.strptime(text, "%m/%d/%Y").date()
StrptimeUs4(text) ==
    LET p == Split(text, "/")
    IN  IF Len(p) = 3 /\ Len(p[3]) = 4 /\ AllDigits(p[3])
           /\ IsOneOrTwoDigits(p[1]) /\ IsOneOrTwoDigits(p[2])
        THEN MakeDate(IntOf(p[3]), IntOf(p[1]), IntOf(p[2]))
        ELSE DateError

\* datetime.strptime(text, "%m/%d/%y").date()
StrptimeUs2(text) ==
    LET p == Split(text, "/")
    IN  IF Len(p) = 3 /\ Len(p[3]) = 2 /\ AllDigits(p[3])
           /\ IsOneOrTwoDigits(p[1]) /\ IsOneOrTwoDigits(p[2])
        THEN MakeDate(TwoDigitYear(p[3]), IntOf(p[1]), IntOf(p[2]))
        ELSE DateError

\* the first of the three formats that parses text.strip(), or ValueError
_parse_date(text) ==
    LET stripped == Strip(text)
        iso      == StrptimeIso(stripped)
        us4      == StrptimeUs4(stripped)
        us2      == StrptimeUs2(stripped)
    IN  IF iso.ok THEN iso
        ELSE IF us4.ok THEN us4
        ELSE IF us2.ok THEN us2
        ELSE DateError

\* ---------------------------------------------------- _parse_amount, core
Str_nan == <<"n", "a", "n">>

\* s is an unsigned decimal numeral: digits with at most one "." among them
\* and at least one digit
IsDecimal(s) ==
    /\ \A i \in DOMAIN s : s[i] \in Digits \cup {"."}
    /\ Len(Split(s, ".")) <= 2
    /\ Len(Remove(s, ".")) >= 1

\* the value of an unsigned decimal numeral as a float
DecimalValue(s) ==
    LET p == Split(s, ".")
        k == IF Len(p) = 2 THEN Len(p[2]) ELSE 0
    IN  RoundQ(IntOf(Remove(s, ".")) * Unit, Pow10(k))

Unsigned(s) == IF s # <<>> /\ Head(s) \in {"+", "-"} THEN Tail(s) ELSE s

\* float(s): a signed decimal numeral or "nan"; anything else raises ValueError
\* (exponents, "inf" and digit-group underscores do not occur in the inputs)
PyFloat(text) ==
    LET s == Strip(text)
        u == Unsigned(s)
    IN  IF Lower(u) = Str_nan THEN NaN
        ELSE IF ~IsDecimal(u) THEN ValueError
        ELSE IF s # <<>> /\ Head(s) = "-" THEN -DecimalValue(u)
        ELSE DecimalValue(u)

\* cleaned = text.replace("$", "").replace(",", "").strip()
CleanedKeepCommas(text) == Strip(Remove(text, "$"))
Cleaned(text) == Strip(Remove(Remove(text, "$"), ","))

IsParenthesized(s) == s # <<>> /\ Head(s) = "(" /\ s[Len(s)] = ")"

_parse_amount(text) ==
    LET cleaned == Cleaned(text)
    IN  IF cleaned = <<>> THEN 0
        ELSE IF IsParenthesized(cleaned)
        THEN LET v == PyFloat(SubSeq(cleaned, 2, Len(cleaned) - 1))
             IN  IF v = ValueError THEN ValueError ELSE FNeg(v)
        ELSE PyFloat(cleaned)

\* --------------------------------------------- field names, core 29-47
\* each set literal as a listing in source order; membership ignores the order
DATE_FIELDS ==
    <<<<"d", "a", "t", "e">>,
      <<"t", "r", "a", "n", "s", "a", "c", "t", "i", "o", "n", " ", "d", "a", "t", "e">>,
      <<"p", "o", "s", "t", "i", "n", "g", " ", "d", "a", "t", "e">>,
      <<"s", "e", "t", "t", "l", "e", "m", "e", "n", "t", " ", "d", "a", "t", "e">>,
      <<"r", "u", "n", " ", "d", "a", "t", "e">>>>
CATEGORY_FIELDS ==
    <<<<"c", "a", "t", "e", "g", "o", "r", "y">>,
      <<"d", "e", "s", "c", "r", "i", "p", "t", "i", "o", "n">>,
      <<"t", "r", "a", "n", "s", "a", "c", "t", "i", "o", "n", " ", "t", "y", "p", "e">>,
      <<"t", "y", "p", "e">>,
      <<"d", "e", "t", "a", "i", "l", "s">>>>
AMOUNT_FIELDS ==
    <<<<"a", "m", "o", "u", "n", "t">>,
      <<"a", "m", "o", "u", "n", "t", " ", "(", "$", ")">>>>
CREDIT_FIELDS ==
    <<<<"c", "r", "e", "d", "i", "t">>>>
DEBIT_FIELDS ==
    <<<<"d", "e", "b", "i", "t">>>>

\* the order in which a run iterates over a set of str: fixed within a process,
\* a function of the process's hash seed across processes (here: the listing
\* rotated by the seed)
SetIterOrder(listing, seed) ==
    [i \in DOMAIN listing |-> listing[((i - 1 + seed) % Len(listing)) + 1]]

\* ---------------------------------------------- _find_header_line, core
\* columns = [c.strip().lower() for c in line.split(",")]
Columns(line) ==
    LET cells == Split(line, ",")
    IN  [i \in DOMAIN cells |-> Lower(Strip(cells[i]))]

IsHeaderLineAnyWidth(line) ==
    LET columns == Columns(line)
    IN  \E i \in DOMAIN columns : columns[i] \in Range(DATE_FIELDS)
IsHeaderLine(line) ==
    LET columns == Columns(line)
    IN  /\ Len(columns) >= 3
        /\ \E i \in DOMAIN columns : columns[i] \in Range(DATE_FIELDS)

\* the index (from 0) of the first header line, -1 for None
RECURSIVE HeaderLineFrom(_, _)
HeaderLineFrom(lines, i) ==
    IF i > Len(lines) THEN -1
    ELSE IF IsHeaderLine(lines[i]) THEN i - 1
    ELSE HeaderLineFrom(lines, i + 1)

_find_header_line(lines) == HeaderLineFrom(lines, 1)

\* ----------------------------------------------------- _find_index, core
\* normalized = [str(h).strip().lower() for h in header]
Normalized(header) == [i \in DOMAIN header |-> Lower(Strip(header[i]))]

\* the first option, in iteration order from position i, that is in normalized
RECURSIVE FindFrom(_, _, _)
FindFrom(normalized, order, i) ==
    IF i > Len(order) THEN -1
    ELSE IF order[i] \in Range(normalized) THEN IndexOf(normalized, order[i])
    ELSE FindFrom(normalized, order, i + 1)

\* the index (from 0) of the column of the first matching option, -1 for None
_find_index(header, options, seed) ==
    FindFrom(Normalized(header), SetIterOrder(options, seed), 1)

\* -------------------------------------------- pandas.read_csv, core 102-112
\* a missing value of the frame
NaCell == <<"<NA>">>

\* texts read_csv takes for missing values (its default na_values, in part)
NaTexts ==
    {<<>>, <<"N", "A">>, <<"N", "/", "A">>, <<"n", "/", "a">>, <<"N", "a", "N">>,
     <<"n", "a", "n">>, <<"n", "u", "l", "l">>, <<"N", "U", "L", "L">>,
     <<"N", "o", "n", "e">>}

\* skip_blank_lines: a record is kept when it has more than one field or its
\* one field is not blank
IsBlankRecord(rec) == Len(rec) = 1 /\ Strip(rec[1]) = <<>>

\* a data record cut or padded to the width of the header (index_col=False
\* drops the surplus fields; missing fields are missing values)
FitWidth(rec, width) ==
    [i \in 1..width |->
        IF i > Len(rec) \/ rec[i] \in NaTexts THEN NaCell ELSE rec[i]]

\* the frame read from the lines after the first skiprows lines: the first
\* record that is not blank names the columns, the others are the rows.
\* (The inputs have no quotes, no empty or repeated column names.)
ReadCsv(lines, skiprows) ==
    LET rest    == SubSeq(lines, skiprows + 1, Len(lines))
        records == SelectSeq([i \in DOMAIN rest |-> Split(rest[i], ",")],
                             LAMBDA rec : ~IsBlankRecord(rec))
    IN  [columns |-> records[1],
         rows    |-> [i \in 1..(Len(records) - 1) |->
                         FitWidth(records[i + 1], Len(records[1]))]]

\* str(row.iloc[i]), i counted from 0.  A column read as numbers comes back as
\* a numeral of the same float; the texts of the inputs need no other change.
CellStr(row, i) == IF row[i + 1] = NaCell THEN Str_nan ELSE row[i + 1]

\* ------------------------------------------------- _parse_csv_file, core
Str_uncategorized == <<"u", "n", "c", "a", "t", "e", "g", "o", "r", "i", "z", "e", "d">>

\* lines 97-131: the header line, the frame and the column indexes; raised when
\* no date column is found
OpenCsvSwallow(lines, seed) ==
    LET header_line == _find_header_line(lines)
    IN  IF header_line = -1
        THEN [raised |-> FALSE, rows |-> <<>>, date_idx |-> -1, amount_idx |-> -1,
              credit_idx |-> -1, debit_idx |-> -1, category_idx |-> -1]
        ELSE LET df == ReadCsv(lines, header_line)
             IN  [raised       |-> FALSE,
                  rows         |-> df.rows,
                  date_idx     |-> _find_index(df.columns, DATE_FIELDS, seed),
                  amount_idx   |-> _find_index(df.columns, AMOUNT_FIELDS, seed),
                  credit_idx   |-> _find_index(df.columns, CREDIT_FIELDS, seed),
                  debit_idx    |-> _find_index(df.columns, DEBIT_FIELDS, seed),
                  category_idx |-> _find_index(df.columns, CATEGORY_FIELDS, seed)]
OpenCsv(lines, seed) ==
    LET header_line == _find_header_line(lines)
    IN  IF header_line = -1
        THEN [raised |-> TRUE, rows |-> <<>>, date_idx |-> -1, amount_idx |-> -1,
              credit_idx |-> -1, debit_idx |-> -1, category_idx |-> -1]
        ELSE LET df == ReadCsv(lines, header_line)
                 date_idx == _find_index(df.columns, DATE_FIELDS, seed)
             IN  [raised       |-> date_idx = -1,
                  rows         |-> df.rows,
                  date_idx     |-> date_idx,
                  amount_idx   |-> _find_index(df.columns, AMOUNT_FIELDS, seed),
                  credit_idx   |-> _find_index(df.columns, CREDIT_FIELDS, seed),
                  debit_idx    |-> _find_index(df.columns, DEBIT_FIELDS, seed),
                  category_idx |-> _find_index(df.columns, CATEGORY_FIELDS, seed)]

\* lines 138-151: the amount of a row, or ValueError
RowAmount(ctx, row) ==
    IF ctx.amount_idx # -1 THEN _parse_amount(CellStr(row, ctx.amount_idx))
    ELSE LET credit == IF ctx.credit_idx # -1
                       THEN _parse_amount(CellStr(row, ctx.credit_idx)) ELSE 0
             debit  == IF ctx.debit_idx # -1
                       THEN _parse_amount(CellStr(row, ctx.debit_idx)) ELSE 0
         IN  IF credit = ValueError \/ debit = ValueError THEN ValueError
             ELSE FSub(credit, debit)

\* lines 152-156
RowCategory(ctx, row) ==
    IF ctx.category_idx # -1 THEN CellStr(row, ctx.category_idx) ELSE Str_uncategorized

\* lines 136-160: the try block over one row; ok is FALSE when it raised and
\* the row is skipped
RowStepZeroAmount(ctx, row) ==
    LET tx_date == _parse_date(CellStr(row, ctx.date_idx))
        amount  == RowAmount(ctx, row)
    IN  IF ~tx_date.ok THEN [ok |-> FALSE]
        ELSE [ok |-> TRUE,
              tx |-> [date     |-> tx_date.date,
                      category |-> RowCategory(ctx, row),
                      amount   |-> IF amount = ValueError THEN 0 ELSE amount]]
RowStep(ctx, row) ==
    LET tx_date == _parse_date(CellStr(row, ctx.date_idx))
        amount  == RowAmount(ctx, row)
    IN  IF ~tx_date.ok THEN [ok |-> FALSE]
        ELSE IF amount = ValueError THEN [ok |-> FALSE]
        ELSE [ok |-> TRUE,
              tx |-> [date     |-> tx_date.date,
                      category |-> RowCategory(ctx, row),
                      amount   |-> amount]]

\* the loop over df.iterrows() from row i on
RECURSIVE RowsFrom(_, _, _)
RowsFrom(ctx, i, transactions) ==
    IF i > Len(ctx.rows) THEN transactions
    ELSE LET step == RowStep(ctx, ctx.rows[i])
         IN  RowsFrom(ctx, i + 1,
                      IF step.ok THEN Append(transactions, step.tx) ELSE transactions)

\* the whole of _parse_csv_file on the lines of a file
ParseCsvFile(lines, seed) ==
    LET csv == OpenCsv(lines, seed)
    IN  IF csv.raised THEN [raised |-> TRUE, txs |-> <<>>]
        ELSE [raised |-> FALSE, txs |-> RowsFrom(csv, 1, <<>>)]

\* ------------------------------------------------------- parse_csv, core
\* if isinstance(paths, str): paths = [paths]
PathList(paths) == IF paths.kind = "str" THEN <<paths.path>> ELSE paths.items

\* all_tx.extend(tx)
ExtendFront(all, tx) == tx \o all
Extend(all, tx) == all \o tx

\* the loop over the paths from path i on
RECURSIVE FilesFrom(_, _, _, _, _)
FilesFrom(path_list, files, seed, i, all) ==
    IF i > Len(path_list) THEN [raised |-> FALSE, txs |-> all]
    ELSE LET tx == ParseCsvFile(files[path_list[i]], seed)
         IN  IF tx.raised THEN [raised |-> TRUE, txs |-> <<>>]
             ELSE FilesFrom(path_list, files, seed, i + 1, Extend(all, tx.txs))

\* the whole of parse_csv: what it returns, or that it raised
ParseCsv(paths, files, seed) == FilesFrom(PathList(paths), files, seed, 1, <<>>)

\* ------------------------------------ get_month_details (spec 4.6; the
\* code, backend/fhm/core.py, is not in the source tree)
\* the (year, month) that a "YYYY-MM" string names
MonthOf(month) ==
    LET p == Split(month, "-")
    IN  <<IntOf(p[1]), IntOf(p[2])>>

\* the transaction's (year, month) matches the requested string
InMonth(tx, month) == BucketKey(tx) = MonthOf(month)

\* one transaction: added to its category's total when it is of the month
MonthDetailsStepAll(details, tx, month) == AddCategory(details, tx)
MonthDetailsStep(details, tx, month) ==
    IF InMonth(tx, month) THEN AddCategory(details, tx) ELSE details

RECURSIVE MonthDetailsFrom(_, _, _, _)
MonthDetailsFrom(txs, month, i, details) ==
    IF i > Len(txs) THEN details
    ELSE MonthDetailsFrom(txs, month, i + 1, MonthDetailsStep(details, txs[i], month))

get_month_details(txs, month) == MonthDetailsFrom(txs, month, 1, EmptyDict)

\* --------------------------------- yoy_monthly_expenses (spec 4.6; the
\* code, backend/fhm/core.py, is not in the source tree)
\* "MM": the month of the year, the year ignored
CalendarKey(tx) == Pad2(tx.date.month)

\* the running sums of |amount| and the expense-bearing (year, month) buckets,
\* both per calendar month
EmptyYoy == [sums |-> EmptyDict, buckets |-> EmptyDict]

\* one transaction: an expense (amount < 0) adds |amount| to the sum of its
\* calendar month and marks its (year, month) as expense-bearing
YoyStepAny(acc, tx) ==
    [sums    |-> DictSet(acc.sums, CalendarKey(tx),
                         FAdd(DictGet(acc.sums, CalendarKey(tx), 0), Abs(tx.amount))),
     buckets |-> DictSet(acc.buckets, CalendarKey(tx),
                         DictGet(acc.buckets, CalendarKey(tx), {}) \cup {BucketKey(tx)})]
YoyStep(acc, tx) ==
    IF tx.amount < 0
    THEN [sums    |-> DictSet(acc.sums, CalendarKey(tx),
                              FAdd(DictGet(acc.sums, CalendarKey(tx), 0), FNeg(tx.amount))),
          buckets |-> DictSet(acc.buckets, CalendarKey(tx),
                              DictGet(acc.buckets, CalendarKey(tx), {})
                                  \cup {BucketKey(tx)})]
    ELSE acc

\* the final value of each calendar month: sum / count of expense-bearing months
YoyAverages(acc) ==
    [keys |-> acc.sums.keys,
     val  |-> [k \in Range(acc.sums.keys) |->
                  FDiv(acc.sums.val[k], FromInt(Cardinality(acc.buckets.val[k])))]]

RECURSIVE YoyFrom(_, _, _)
YoyFrom(txs, i, acc) ==
    IF i > Len(txs) THEN acc ELSE YoyFrom(txs, i + 1, YoyStep(acc, txs[i]))

yoy_monthly_expenses(txs) == YoyAverages(YoyFrom(txs, 1, EmptyYoy))

\* ------------------------------------------------------------------ inputs
Str_income == <<"i", "n", "c", "o", "m", "e">>
Str_rent == <<"r", "e", "n", "t">>

SumCategories == {Str_income, Str_rent}

SumDates ==
    {[year |-> 999, month |-> 1, day |-> 31],
     [year |-> 2024, month |-> 1, day |-> 1]}

\* amounts in grid units: 2^MantDig + 1 needs one bit more than a float has
SumAmounts == {-(Pow2(MantDig)), 0, 1, Pow2(MantDig)}

Transactions == [date : SumDates, category : SumCategories, amount : SumAmounts]

\* the inputs of the permutation runs: income is earned, rent is spent
PermTransactions ==
    [date : SumDates, category : {Str_income}, amount : {1, 2, Pow2(MantDig)}]
    \cup [date : SumDates, category : {Str_rent}, amount : {-(Pow2(MantDig)), -1}]

RECURSIVE SeqsUpTo(_, _)
SeqsUpTo(S, n) ==
    IF n = 0 THEN {<<>>}
    ELSE LET shorter == SeqsUpTo(S, n - 1)
         IN  shorter \cup {Append(s, x) : s \in {t \in shorter : Len(t) = n - 1}, x \in S}

\* ------------------------------------------------------ inputs of parse_csv
\* lines of files, without their line ends
\* "Account activity": a title line above the header
Line_Title ==
    <<"A", "c", "c", "o", "u", "n", "t", " ", "a", "c", "t", "i", "v", "i",
      "t", "y">>
\* "Date,Category,Amount"
Line_H1 ==
    <<"D", "a", "t", "e", ",", "C", "a", "t", "e", "g", "o", "r", "y", ",",
      "A", "m", "o", "u", "n", "t">>
\* " Posting Date,DATE,Amount ($),Description,category": two date names and two category names
Line_H2 ==
    <<" ", "P", "o", "s", "t", "i", "n", "g", " ", "D", "a", "t", "e", ",",
      "D", "A", "T", "E", ",", "A", "m", "o", "u", "n", "t", " ", "(", "$",
      ")", ",", "D", "e", "s", "c", "r", "i", "p", "t", "i", "o", "n", ",",
      "c", "a", "t", "e", "g", "o", "r", "y">>
\* "2024-01-01,income,3000"
Line_R1 ==
    <<"2", "0", "2", "4", "-", "0", "1", "-", "0", "1", ",", "i", "n", "c",
      "o", "m", "e", ",", "3", "0", "0", "0">>
\* "01/05/2024,rent,-50"
Line_R2 ==
    <<"0", "1", "/", "0", "5", "/", "2", "0", "2", "4", ",", "r", "e", "n",
      "t", ",", "-", "5", "0">>
\* "bad,row": no date in the first cell and no third cell
Line_R3 ==
    <<"b", "a", "d", ",", "r", "o", "w">>
\* "2024-01-02,rent,abc": no number in the third cell
Line_R4 ==
    <<"2", "0", "2", "4", "-", "0", "1", "-", "0", "2", ",", "r", "e", "n",
      "t", ",", "a", "b", "c">>
\* "2024-01-31,02/01/24,(5),Coffee,food": a row for the five columns of Line_H2
Line_R5 ==
    <<"2", "0", "2", "4", "-", "0", "1", "-", "3", "1", ",", "0", "2", "/",
      "0", "1", "/", "2", "4", ",", "(", "5", ")", ",", "C", "o", "f", "f",
      "e", "e", ",", "f", "o", "o", "d">>
\* ""
Line_Blank == <<>>

\* the lines of a file down to its header line
FileHeads ==
    {<<Line_H1>>, <<Line_H2>>, <<Line_Title, Line_Blank, Line_H1, Line_Blank>>}

RowLines == {Line_R1, Line_R3, Line_R4, Line_R5}

\* the lines of the file under the first path: a header and rows under it, or
\* no header at all
FileTexts ==
    {head \o rows : head \in FileHeads, rows \in SeqsUpTo(RowLines, MaxRows)}
        \cup {<<>>, <<Line_Title, Line_R1>>, <<Line_R1>>, <<Line_R1, Line_R4>>}

\* the lines of the file under the second path: one that parses, one without header
SecondFileTexts == {<<Line_H1, Line_R2>>, <<Line_R3>>}

Path_a == "a.csv"
Path_b == "b.csv"

\* the files on disk: path -> f.readlines()
FileSystem(a, b) == [p \in {Path_a, Path_b} |-> IF p = Path_a THEN a ELSE b]

\* the argument of parse_csv: one str, or a list of str
StrPath(p) == [kind |-> "str", path |-> p, items |-> <<>>]
ListPaths(ps) == [kind |-> "list", path |-> "", items |-> ps]

\* the hash seeds of the processes (PYTHONHASHSEED)
HashSeeds == 0..MaxSeed

\* the inputs of the month and year-over-year functions: two Januaries and a
\* February, an income and two expenses of one category
Str_2024_01 == <<"2", "0", "2", "4", "-", "0", "1">>
Str_2024_02 == <<"2", "0", "2", "4", "-", "0", "2">>
Str_2023_12 == <<"2", "0", "2", "3", "-", "1", "2">>

MonthArgs == {Str_2024_01, Str_2024_02, Str_2023_12}

AnalysisDates ==
    {[year |-> 2024, month |-> 1, day |-> 2],
     [year |-> 2025, month |-> 1, day |-> 2],
     [year |-> 2024, month |-> 2, day |-> 3]}

AnalysisTransactions ==
    [date : AnalysisDates, category : {Str_income}, amount : {FromInt(3)}]
    \cup [date : AnalysisDates, category : {Str_rent}, amount : {FromInt(-2), FromInt(-1)}]

\* ------------------------------------------------------------------- state
VARIABLES
    tx_list,          \* summarize: list(transactions)
    pos,              \* summarize: number of transactions the loop has consumed
    category_totals,  \* summarize: the running category totals
    by_month,         \* summarize: the running month buckets
    sum_pc,           \* summarize: "loop" in the loop, "done" after the return, "raised"
    summary,          \* summarize: <<the returned Summary>>, <<>> before the return
    prev_months,      \* by_month before the last loop pass (history, for the step claims)
    paths,            \* parse_csv: the argument
    files,            \* the file system: path -> lines
    hash_seed,        \* the hash seed of the running process
    file_idx,         \* parse_csv: the position (from 1) of the loop in the paths
    ctx,              \* _parse_csv_file: the rows of the frame and the column indexes
    row_idx,          \* _parse_csv_file: the position (from 1) of the loop in the rows
    transactions,     \* _parse_csv_file: the list being built
    all_tx,           \* parse_csv: the list being built
    parse_pc,         \* parse_csv: "files", "rows", "done" after the return, "raised"
    runs,             \* what the earlier invocations returned (history)
    an_txs,           \* get_month_details / yoy_monthly_expenses: the transactions
    an_month,         \* get_month_details: the requested "YYYY-MM"
    an_pos,           \* number of transactions the loop has consumed
    details,          \* get_month_details: the running category totals
    yoy_acc,          \* yoy_monthly_expenses: the running sums and buckets
    an_pc,            \* "month" or "yoy" in the loop, "done" after the return
    an_result,        \* <<the returned dict>>, <<>> before the return
    core,             \* concurrent invocations: invocation -> its locals
    uploads,          \* POST /summarize: the uploaded files, in order
    tempdir,          \* the names of the temporary files on disk
    request,          \* summarize_endpoint: its locals and its position
    response,         \* <<the response>>, <<>> before the handler is over
    vp_fn,            \* the value parser called: "amount" or "date"
    vp_text,          \* _parse_amount / _parse_date: the argument
    vp_parts,         \* the pieces the argument was written from (history)
    vp_cleaned,       \* _parse_amount: cleaned, <<the string>>
    vp_fmt,           \* _parse_date: the position (from 1) of the loop in the formats
    vp_pc,            \* "clean", "branch", "formats", "done" after the return, "raised"
    vp_result,        \* <<the returned value>>, <<>> before the return
    pb_transactions,  \* PocketBase: the records of the collection "transactions"
    workers,          \* the number of server processes that serve the requests
    up,               \* upload_csv: request -> its arguments, locals and position
    query             \* get_transactions: its arguments, locals and position

sumVars == <<tx_list, pos, category_totals, by_month, sum_pc, summary, prev_months>>

parseVars ==
    <<paths, files, hash_seed, file_idx, ctx, row_idx, transactions, all_tx,
      parse_pc, runs>>

anVars == <<an_txs, an_month, an_pos, details, yoy_acc, an_pc, an_result>>

concVars == <<core>>

serverVars == <<uploads, tempdir, request, response>>

valueVars == <<vp_fn, vp_text, vp_parts, vp_cleaned, vp_fmt, vp_pc, vp_result>>

backendVars == <<pb_transactions, workers, up, query>>

vars == <<sumVars, parseVars, anVars, concVars, serverVars, valueVars, backendVars>>

\* what the steps of one function leave alone: the state of the others
notSum == <<parseVars, anVars, concVars, serverVars, valueVars, backendVars>>
notParse == <<sumVars, anVars, concVars, serverVars, valueVars, backendVars>>
notAnalysis == <<sumVars, parseVars, concVars, serverVars, valueVars, backendVars>>
notConc == <<sumVars, parseVars, anVars, serverVars, valueVars, backendVars>>
notServer == <<sumVars, parseVars, anVars, concVars, valueVars, backendVars>>
notValue == <<sumVars, parseVars, anVars, concVars, serverVars, backendVars>>
notBackend == <<sumVars, parseVars, anVars, concVars, serverVars, valueVars>>

\* no frame is open
NoCsv ==
    [raised |-> FALSE, rows |-> <<>>, date_idx |-> -1, amount_idx |-> -1,
     credit_idx |-> -1, debit_idx |-> -1, category_idx |-> -1]

\* parse_csv is not called
ParseIdle ==
    /\ paths = ListPaths(<<>>)
    /\ files = FileSystem(<<>>, <<>>)
    /\ hash_seed = 0
    /\ file_idx = 1
    /\ ctx = NoCsv
    /\ row_idx = 0
    /\ transactions = <<>>
    /\ all_tx = <<>>
    /\ parse_pc = "idle"
    /\ runs = <<>>

\* get_month_details and yoy_monthly_expenses are not called
AnalysisIdle ==
    /\ an_txs = <<>>
    /\ an_month = <<>>
    /\ an_pos = 0
    /\ details = EmptyDict
    /\ yoy_acc = EmptyYoy
    /\ an_pc = "idle"
    /\ an_result = <<>>

\* no concurrent invocations
ConcIdle == core = <<>>

\* no temporary file exists
EmptyTempDir == {}

\* the locals of summarize_endpoint before its first statement
NoRequest ==
    [pc |-> "idle", paths |-> <<>>, transactions |-> <<>>, cat_totals |-> <<>>,
     month_data |-> <<>>, overall |-> <<>>]

\* no request is being served
ServerIdle ==
    /\ uploads = <<>>
    /\ tempdir = EmptyTempDir
    /\ request = NoRequest
    /\ response = <<>>

\* no request of the backend is being served, its collection is empty
NoQuery ==
    [pc |-> "idle", user_id |-> "", limit |-> 1, offset |-> 0, result |-> <<>>,
     response |-> <<>>]

BackendIdle ==
    /\ pb_transactions = <<>>
    /\ workers = 1
    /\ up = <<>>
    /\ query = NoQuery

\* no value parser is called
ValueIdle ==
    /\ vp_fn = "none"
    /\ vp_text = <<>>
    /\ vp_parts = <<>>
    /\ vp_cleaned = <<>>
    /\ vp_fmt = 1
    /\ vp_pc = "idle"
    /\ vp_result = <<>>

\* summarize is not called
SumIdle ==
    /\ tx_list = <<>>
    /\ pos = 0
    /\ category_totals = EmptyDict
    /\ by_month = EmptyDict
    /\ sum_pc = "idle"
    /\ summary = <<>>
    /\ prev_months = EmptyDict

InitSum ==
    /\ BackendIdle
    /\ tx_list \in SeqsUpTo(Transactions, MaxTx)
    /\ pos = 0
    /\ category_totals = EmptyDict
    /\ by_month = EmptyDict
    /\ sum_pc = "loop"
    /\ summary = <<>>
    /\ prev_months = EmptyDict
    /\ ParseIdle
    /\ AnalysisIdle
    /\ ConcIdle
    /\ ServerIdle
    /\ ValueIdle

\* one pass of "for tx in tx_list" (core.py 190-196)
SummarizeIter ==
    /\ sum_pc = "loop"
    /\ pos < Len(tx_list)
    /\ pos' = pos + 1
    /\ category_totals' = AddCategory(category_totals, tx_list[pos + 1])
    /\ by_month' = AddMonth(by_month, tx_list[pos + 1])
    /\ prev_months' = by_month
    /\ UNCHANGED <<tx_list, sum_pc, summary, notSum>>

\* the loop is over: compute overall and the rates, return the Summary (core.py 197-203)
SummarizeReturn ==
    /\ sum_pc = "loop"
    /\ pos = Len(tx_list)
    /\ IF SavingsRateRaises(by_month)
       THEN sum_pc' = "raised" /\ summary' = <<>>
       ELSE sum_pc' = "done" /\ summary' = <<MakeSummary(category_totals, by_month)>>
    /\ UNCHANGED <<tx_list, pos, category_totals, by_month, prev_months, notSum>>

NextSum == SummarizeIter \/ SummarizeReturn

SpecSum == InitSum /\ [][NextSum]_vars

\* summarize over the inputs of the permutation runs
InitPerm ==
    /\ BackendIdle
    /\ tx_list \in SeqsUpTo(PermTransactions, MaxTx)
    /\ pos = 0
    /\ category_totals = EmptyDict
    /\ by_month = EmptyDict
    /\ sum_pc = "loop"
    /\ summary = <<>>
    /\ prev_months = EmptyDict
    /\ ParseIdle
    /\ AnalysisIdle
    /\ ConcIdle
    /\ ServerIdle
    /\ ValueIdle

SpecPerm == InitPerm /\ [][NextSum]_vars

\* -------------------------------------------------------- parse_csv, steps
\* the entry of parse_csv (core.py 168-171)
ParseStart ==
    /\ file_idx = 1
    /\ ctx = NoCsv
    /\ row_idx = 0
    /\ transactions = <<>>
    /\ all_tx = <<>>
    /\ parse_pc = "files"

\* parse_csv called once, in a process with any hash seed, on one path or a list
InitParse ==
    /\ BackendIdle
    /\ SumIdle
    /\ AnalysisIdle
    /\ ConcIdle
    /\ ServerIdle
    /\ ValueIdle
    /\ hash_seed \in HashSeeds
    /\ \E a \in FileTexts :
          \/ /\ paths \in {StrPath(Path_a), ListPaths(<<Path_a>>)}
             /\ files = FileSystem(a, <<>>)
          \/ /\ paths = ListPaths(<<Path_a, Path_b>>)
             /\ files \in {FileSystem(a, b) : b \in SecondFileTexts}
    /\ ParseStart
    /\ runs = <<>>

\* the path the loop of parse_csv is at
CurrentPath == PathList(paths)[file_idx]

\* _parse_csv_file up to the loop over the rows (core.py 94-133)
OpenFile ==
    /\ parse_pc = "files"
    /\ file_idx <= Len(PathList(paths))
    /\ LET csv == OpenCsv(files[CurrentPath], hash_seed)
       IN  ~csv.raised /\ ctx' = csv
    /\ row_idx' = 1
    /\ transactions' = <<>>
    /\ parse_pc' = "rows"
    /\ UNCHANGED <<notParse, paths, files, hash_seed, file_idx, all_tx, runs>>

\* _parse_csv_file raises ValueError, parse_csv raises it again (core.py 98-100,
\* 115-117, 174-177)
OpenFileRaises ==
    /\ parse_pc = "files"
    /\ file_idx <= Len(PathList(paths))
    /\ OpenCsv(files[CurrentPath], hash_seed).raised
    /\ parse_pc' = "raised"
    /\ UNCHANGED <<notParse, paths, files, hash_seed, file_idx, ctx, row_idx,
                   transactions, all_tx, runs>>

\* one pass of "for _, row in df.iterrows()" (core.py 135-160)
ParseRow ==
    /\ parse_pc = "rows"
    /\ row_idx <= Len(ctx.rows)
    /\ LET step == RowStep(ctx, ctx.rows[row_idx])
       IN  transactions' = IF step.ok THEN Append(transactions, step.tx)
                           ELSE transactions
    /\ row_idx' = row_idx + 1
    /\ UNCHANGED <<notParse, paths, files, hash_seed, file_idx, ctx, all_tx,
                   parse_pc, runs>>

\* _parse_csv_file returns, parse_csv extends its list (core.py 162-163, 178)
FileReturn ==
    /\ parse_pc = "rows"
    /\ row_idx > Len(ctx.rows)
    /\ all_tx' = Extend(all_tx, transactions)
    /\ file_idx' = file_idx + 1
    /\ ctx' = NoCsv
    /\ row_idx' = 0
    /\ transactions' = <<>>
    /\ parse_pc' = "files"
    /\ UNCHANGED <<notParse, paths, files, hash_seed, runs>>

\* the loop over the paths is over: return all_tx (core.py 179)
ParseCsvReturn ==
    /\ parse_pc = "files"
    /\ file_idx > Len(PathList(paths))
    /\ parse_pc' = "done"
    /\ UNCHANGED <<notParse, paths, files, hash_seed, file_idx, ctx, row_idx,
                   transactions, all_tx, runs>>

NextParse == OpenFile \/ OpenFileRaises \/ ParseRow \/ FileReturn \/ ParseCsvReturn

SpecParse == InitParse /\ [][NextParse]_vars

\* what the invocation gave its caller: the list, or the error
Outcome ==
    [raised |-> parse_pc = "raised", txs |-> IF parse_pc = "done" THEN all_tx ELSE <<>>]

\* the caller calls parse_csv again on the same argument
CallAgain ==
    /\ parse_pc \in {"done", "raised"}
    /\ Len(runs) + 1 < MaxInvocations
    /\ runs' = Append(runs, Outcome)
    /\ file_idx' = 1
    /\ ctx' = NoCsv
    /\ row_idx' = 0
    /\ transactions' = <<>>
    /\ all_tx' = <<>>
    /\ parse_pc' = "files"

\* ... in the same run of the program
Reinvoke ==
    /\ CallAgain
    /\ UNCHANGED <<notParse, paths, files, hash_seed>>

\* ... in another run of the program: a new process, with a hash seed of its own
NewProcess ==
    /\ CallAgain
    /\ hash_seed' \in HashSeeds
    /\ UNCHANGED <<notParse, paths, files>>

\* parse_csv called on one path, again and again
InitRuns ==
    /\ BackendIdle
    /\ SumIdle
    /\ AnalysisIdle
    /\ ConcIdle
    /\ ServerIdle
    /\ ValueIdle
    /\ hash_seed \in HashSeeds
    /\ paths = StrPath(Path_a)
    /\ files \in {FileSystem(a, <<>>) : a \in FileTexts}
    /\ ParseStart
    /\ runs = <<>>

NextRuns == NextParse \/ Reinvoke \/ NewProcess

SpecRuns == InitRuns /\ [][NextRuns]_vars

\* ------------------------------ get_month_details, yoy_monthly_expenses
\* one of the two functions called on a list of transactions
InitAnalysis ==
    /\ BackendIdle
    /\ SumIdle
    /\ ParseIdle
    /\ ConcIdle
    /\ ServerIdle
    /\ ValueIdle
    /\ an_txs \in SeqsUpTo(AnalysisTransactions, MaxTx)
    /\ \/ an_pc = "month" /\ an_month \in MonthArgs
       \/ an_pc = "yoy" /\ an_month = <<>>
    /\ an_pos = 0
    /\ details = EmptyDict
    /\ yoy_acc = EmptyYoy
    /\ an_result = <<>>

\* get_month_details: one pass of the loop over the transactions
MonthDetailsIter ==
    /\ an_pc = "month"
    /\ an_pos < Len(an_txs)
    /\ an_pos' = an_pos + 1
    /\ details' = MonthDetailsStep(details, an_txs[an_pos + 1], an_month)
    /\ UNCHANGED <<notAnalysis, an_txs, an_month, yoy_acc, an_pc, an_result>>

\* get_month_details: return the mapping
MonthDetailsReturn ==
    /\ an_pc = "month"
    /\ an_pos = Len(an_txs)
    /\ an_result' = <<details>>
    /\ an_pc' = "done"
    /\ UNCHANGED <<notAnalysis, an_txs, an_month, an_pos, details, yoy_acc>>

\* yoy_monthly_expenses: one pass of the loop over the transactions
YoyIter ==
    /\ an_pc = "yoy"
    /\ an_pos < Len(an_txs)
    /\ an_pos' = an_pos + 1
    /\ yoy_acc' = YoyStep(yoy_acc, an_txs[an_pos + 1])
    /\ UNCHANGED <<notAnalysis, an_txs, an_month, details, an_pc, an_result>>

\* yoy_monthly_expenses: divide and return the mapping
YoyReturn ==
    /\ an_pc = "yoy"
    /\ an_pos = Len(an_txs)
    /\ an_result' = <<YoyAverages(yoy_acc)>>
    /\ an_pc' = "done"
    /\ UNCHANGED <<notAnalysis, an_txs, an_month, an_pos, details, yoy_acc>>

NextAnalysis == MonthDetailsIter \/ MonthDetailsReturn \/ YoyIter \/ YoyReturn

SpecAnalysis == InitAnalysis /\ [][NextAnalysis]_vars

\* -------------------------------------- parse_csv on files with a preamble
\* "Date,Amount": a date-field name, but two columns
Line_DA ==
    <<"D", "a", "t", "e", ",", "A", "m", "o", "u", "n", "t">>

\* the lines a file may have in front of its header line: a title, a blank
\* line, a line of two columns with a date-field name, a line of data
PreambleLines == {Line_Title, Line_Blank, Line_DA, Line_R1}

\* the header lines of the files
HeaderLines == {Line_H1, Line_H2}

\* the lines behind the header line
RowBlocks == {<<>>, <<Line_R1>>, <<Line_R5, Line_R3>>}

\* files with a header line behind a preamble, and files without a header line
PreambleFileTexts ==
    {pre \o <<h>> \o rows : pre \in SeqsUpTo(PreambleLines, MaxPreamble),
                            h \in HeaderLines, rows \in RowBlocks}
    \cup {pre \o rows : pre \in SeqsUpTo(PreambleLines, MaxPreamble), rows \in RowBlocks}

\* parse_csv called on the path of one such file
InitHeader ==
    /\ BackendIdle
    /\ SumIdle
    /\ AnalysisIdle
    /\ ConcIdle
    /\ ServerIdle
    /\ ValueIdle
    /\ hash_seed \in HashSeeds
    /\ paths = StrPath(Path_a)
    /\ files \in {FileSystem(a, <<>>) : a \in PreambleFileTexts}
    /\ ParseStart
    /\ runs = <<>>

SpecHeader == InitHeader /\ [][NextParse]_vars

\* ------------------------------------- parse_csv on files of one header and rows
\* "Date,Credit,Debit"
Line_HC ==
    <<"D", "a", "t", "e", ",", "C", "r", "e", "d", "i", "t", ",", "D",
      "e", "b", "i", "t">>
\* "Date,Memo,Debit": no category column, no credit column
Line_HM ==
    <<"D", "a", "t", "e", ",", "M", "e", "m", "o", ",", "D", "e", "b",
      "i", "t">>
\* "Date,Amount,Credit,Debit"
Line_HB ==
    <<"D", "a", "t", "e", ",", "A", "m", "o", "u", "n", "t", ",", "C",
      "r", "e", "d", "i", "t", ",", "D", "e", "b", "i", "t">>
\* "Date,Type,Credit": no debit column
Line_HT ==
    <<"D", "a", "t", "e", ",", "T", "y", "p", "e", ",", "C", "r", "e",
      "d", "i", "t">>

\* a header line and the kind of cell its rows have under each column
RowSchemas ==
    {[header |-> Line_H1, kinds |-> <<"date", "category", "amount">>],
     [header |-> Line_HC, kinds |-> <<"date", "amount", "amount">>],
     [header |-> Line_HM, kinds |-> <<"anydate", "memo", "amount">>],
     [header |-> Line_HB, kinds |-> <<"anydate", "number", "number", "number">>],
     [header |-> Line_HT, kinds |-> <<"anydate", "category", "number">>]}

\* the texts a cell of a kind may hold
CellTexts(kind) ==
    IF kind = "date" THEN {<<"2", "0", "2", "4", "-", "0", "1", "-", "0", "1">>, <<"b", "a", "d">>}
    ELSE IF kind = "anydate" THEN {<<"2", "0", "2", "4", "-", "0", "1", "-", "0", "2">>}
    ELSE IF kind = "category" THEN {<<"r", "e", "n", "t">>, <<>>}
    ELSE IF kind = "memo" THEN {<<"a", "t", "m">>}
    ELSE IF kind = "amount" THEN {<<>>, <<"5">>, <<"(", "2", ")">>, <<"a", "b", "c">>, Str_nan}
    ELSE {<<>>, <<"5">>, <<"a", "b", "c">>}

AllCellTexts ==
    UNION {CellTexts(k) : k \in {"date", "anydate", "category", "memo", "amount", "number"}}

\* the rows of full width under a header, cell by cell
FullRows(kinds) ==
    {cells \in [1..Len(kinds) -> AllCellTexts] :
        \A i \in 1..Len(kinds) : cells[i] \in CellTexts(kinds[i])}

\* ... and the rows that stop before the last column
ShortRows(kinds) ==
    {SubSeq(cells, 1, n) : cells \in FullRows(kinds), n \in 1..(Len(kinds) - 1)}

\* ",".join(cells)
RECURSIVE JoinComma(_)
JoinComma(cells) ==
    IF Len(cells) = 1 THEN cells[1]
    ELSE JoinComma(SubSeq(cells, 1, Len(cells) - 1)) \o <<",">> \o cells[Len(cells)]

\* "2024-01-01,rent,5", "2024-01-01,rent" and "2024-01-01": a full row and rows
\* without their last cells
Line_Full == JoinComma(<<<<"2", "0", "2", "4", "-", "0", "1", "-", "0", "1">>, <<"r", "e", "n", "t">>, <<"5">>>>)
Line_NoAmount == JoinComma(<<<<"2", "0", "2", "4", "-", "0", "1", "-", "0", "1">>, <<"r", "e", "n", "t">>>>)
Line_DateOnly == <<"2", "0", "2", "4", "-", "0", "1", "-", "0", "1">>

\* files of a header line and one row, files where a short, an empty or a
\* malformed row stands between full rows, and a file of rows without a header
\* line
RowFileTexts ==
    UNION {{<<s.header, JoinComma(cells)>> :
               cells \in FullRows(s.kinds) \cup ShortRows(s.kinds)} : s \in RowSchemas}
    \cup {<<Line_H1, Line_Full, r, Line_Full>> :
             r \in {Line_NoAmount, Line_DateOnly, Line_Blank, Line_R4}}
    \cup {<<Line_Full, Line_Full>>}

\* parse_csv called on the path of one such file
InitRows ==
    /\ BackendIdle
    /\ SumIdle
    /\ AnalysisIdle
    /\ ConcIdle
    /\ ServerIdle
    /\ ValueIdle
    /\ hash_seed \in HashSeeds
    /\ paths = StrPath(Path_a)
    /\ files \in {FileSystem(a, <<>>) : a \in RowFileTexts}
    /\ ParseStart
    /\ runs = <<>>

SpecRows == InitRows /\ [][NextParse]_vars

\* ---------------------- two invocations of parse_csv, then summarize, at once
\* the invocations (threads of one process: one hash seed)
Invocations == {1, 2}

\* the path each invocation is called on
InvPath(i) == IF i = 1 THEN Path_a ELSE Path_b

\* where an invocation keeps its locals: each call of a function has a frame
\* of its own (core.py holds no other state than the locals of its functions)
SlotShared(i) == 1
SlotOf(i) == i

\* the locals of an invocation at the entry of parse_csv (core.py 168-171)
EntryLocals(i) ==
    [paths |-> StrPath(InvPath(i)), file_idx |-> 1, csv |-> NoCsv, row_idx |-> 0,
     transactions |-> <<>>, all_tx |-> <<>>, tx_list |-> <<>>, pos |-> 0,
     category_totals |-> EmptyDict, by_month |-> EmptyDict, pc |-> "files",
     result |-> <<>>]

\* the files the concurrent invocations are called on
ConcFileTexts ==
    {<<Line_H1, Line_R1, Line_R2>>, <<Line_H1, Line_R2, Line_R3>>,
     <<Line_H2, Line_R5, Line_R1>>, <<Line_Title>>}

InitConc ==
    /\ BackendIdle
    /\ SumIdle
    /\ AnalysisIdle
    /\ paths = ListPaths(<<>>)
    /\ files \in {FileSystem(a, b) : a \in ConcFileTexts, b \in ConcFileTexts}
    /\ hash_seed \in HashSeeds
    /\ file_idx = 1
    /\ ctx = NoCsv
    /\ row_idx = 0
    /\ transactions = <<>>
    /\ all_tx = <<>>
    /\ parse_pc = "idle"
    /\ runs = <<>>
    /\ core = [i \in Invocations |-> EntryLocals(i)]
    /\ ServerIdle
    /\ ValueIdle

\* the locals of invocation i
Locals(i) == core[SlotOf(i)]

\* invocation i writes its locals
SetLocals(i, new) ==
    /\ core' = [core EXCEPT ![SlotOf(i)] = new]
    /\ UNCHANGED notConc

\* _parse_csv_file up to the loop over the rows (core.py 94-133)
ConcOpenFile(i) ==
    LET my == Locals(i)
    IN  /\ my.pc = "files"
        /\ my.file_idx <= Len(PathList(my.paths))
        /\ LET csv == OpenCsv(files[PathList(my.paths)[my.file_idx]], hash_seed)
           IN  /\ ~csv.raised
               /\ SetLocals(i, [my EXCEPT !.csv = csv, !.row_idx = 1,
                                          !.transactions = <<>>, !.pc = "rows"])

\* _parse_csv_file raises, parse_csv raises it again (core.py 98-100, 174-177)
ConcOpenFileRaises(i) ==
    LET my == Locals(i)
    IN  /\ my.pc = "files"
        /\ my.file_idx <= Len(PathList(my.paths))
        /\ OpenCsv(files[PathList(my.paths)[my.file_idx]], hash_seed).raised
        /\ SetLocals(i, [my EXCEPT !.pc = "raised"])

\* one pass of the loop over the rows (core.py 135-160)
ConcParseRow(i) ==
    LET my == Locals(i)
    IN  /\ my.pc = "rows"
        /\ my.row_idx <= Len(my.csv.rows)
        /\ LET step == RowStep(my.csv, my.csv.rows[my.row_idx])
           IN  SetLocals(i, [my EXCEPT !.row_idx = my.row_idx + 1,
                                       !.transactions =
                                           IF step.ok THEN Append(my.transactions, step.tx)
                                           ELSE my.transactions])

\* _parse_csv_file returns, parse_csv extends its list (core.py 162-163, 178)
ConcFileReturn(i) ==
    LET my == Locals(i)
    IN  /\ my.pc = "rows"
        /\ my.row_idx > Len(my.csv.rows)
        /\ SetLocals(i, [my EXCEPT !.all_tx = Extend(my.all_tx, my.transactions),
                                   !.file_idx = my.file_idx + 1, !.csv = NoCsv,
                                   !.row_idx = 0, !.transactions = <<>>,
                                   !.pc = "files"])

\* parse_csv returns all_tx; summarize is called on it (core.py 179, 184-189)
ConcParseReturn(i) ==
    LET my == Locals(i)
    IN  /\ my.pc = "files"
        /\ my.file_idx > Len(PathList(my.paths))
        /\ SetLocals(i, [my EXCEPT !.tx_list = my.all_tx, !.pos = 0,
                                   !.pc = "summarize"])

\* one pass of the loop of summarize (core.py 190-196)
ConcSummarizeIter(i) ==
    LET my == Locals(i)
    IN  /\ my.pc = "summarize"
        /\ my.pos < Len(my.tx_list)
        /\ SetLocals(i, [my EXCEPT
              !.pos = my.pos + 1,
              !.category_totals = AddCategory(my.category_totals, my.tx_list[my.pos + 1]),
              !.by_month = AddMonth(my.by_month, my.tx_list[my.pos + 1])])

\* summarize returns the Summary (core.py 197-203)
ConcSummarizeReturn(i) ==
    LET my == Locals(i)
    IN  /\ my.pc = "summarize"
        /\ my.pos = Len(my.tx_list)
        /\ IF SavingsRateRaises(my.by_month)
           THEN SetLocals(i, [my EXCEPT !.pc = "raised"])
           ELSE SetLocals(i, [my EXCEPT
                   !.pc = "done",
                   !.result = <<MakeSummary(my.category_totals, my.by_month)>>])

NextConc ==
    \E i \in Invocations :
        \/ ConcOpenFile(i)
        \/ ConcOpenFileRaises(i)
        \/ ConcParseRow(i)
        \/ ConcFileReturn(i)
        \/ ConcParseReturn(i)
        \/ ConcSummarizeIter(i)
        \/ ConcSummarizeReturn(i)

SpecConc == InitConc /\ [][NextConc]_vars

\* ------------------------------------------------ POST /summarize, server.py
\* the status of a response whose handler raised: the framework turns an
\* exception that no handler catches into 500 Internal Server Error
InternalServerError == [status |-> 500, body |-> <<>>]

\* the name NamedTemporaryFile gives to the n-th file it creates
TempName(n) == IF n = 1 THEN Path_a ELSE Path_b

\* the files a request uploads
UploadTexts ==
    {<<Line_H1, Line_R1, Line_R2>>, <<Line_H1, Line_R2>>, <<Line_H2, Line_R5, Line_R1>>,
     <<Line_H1, Line_R3>>, <<Line_Title>>}

\* a Python tuple of two items
Pair(first, second) == [type |-> "tuple", first |-> first, second |-> second]

\* iter(model) of a pydantic model: the (field name, value) pairs, in the
\* order of the fields of Summary (models.py)
IterSummary(s) ==
    << Pair("category_totals", s.category_totals),
       Pair("savings_rate", s.savings_rate),
       Pair("overall_balance", s.overall_balance) >>

\* month_data.items() in savings_rate (core.py 211): a dict has the method, a
\* tuple does not and the call raises AttributeError
HasItems(obj) == obj.type = "dict"

InitServer ==
    /\ BackendIdle
    /\ SumIdle
    /\ AnalysisIdle
    /\ ConcIdle
    /\ ValueIdle
    /\ paths = ListPaths(<<>>)
    /\ files = FileSystem(<<>>, <<>>)
    /\ hash_seed \in HashSeeds
    /\ file_idx = 1
    /\ ctx = NoCsv
    /\ row_idx = 0
    /\ transactions = <<>>
    /\ all_tx = <<>>
    /\ parse_pc = "idle"
    /\ runs = <<>>
    /\ uploads \in {<<a>> : a \in UploadTexts}
                   \cup {<<a, b>> : a \in UploadTexts, b \in UploadTexts}
    /\ tempdir = EmptyTempDir
    /\ request = [NoRequest EXCEPT !.pc = "write"]
    /\ response = <<>>

\* one pass of the loop over the uploads: the data goes to a new temporary
\* file that stays on disk, its name is appended to paths (server.py 47-52)
EndpointWriteTemp ==
    /\ request.pc = "write"
    /\ Len(request.paths) < Len(uploads)
    /\ LET n == Len(request.paths) + 1
       IN  /\ tempdir' = tempdir \cup {TempName(n)}
           /\ files' = [files EXCEPT ![TempName(n)] = uploads[n]]
           /\ request' = [request EXCEPT !.paths = Append(request.paths, TempName(n))]
    /\ UNCHANGED <<uploads, response, sumVars, anVars, concVars, valueVars, backendVars, paths,
                   hash_seed, file_idx, ctx, row_idx, transactions, all_tx,
                   parse_pc, runs>>

\* the call parse_csv(paths) (server.py 54)
EndpointCallParse ==
    /\ request.pc = "write"
    /\ Len(request.paths) = Len(uploads)
    /\ paths' = ListPaths(request.paths)
    /\ parse_pc' = "files"
    /\ request' = [request EXCEPT !.pc = "parse"]
    /\ UNCHANGED <<uploads, tempdir, response, sumVars, anVars, concVars, valueVars, backendVars,
                   files, hash_seed, file_idx, ctx, row_idx, transactions, all_tx,
                   runs>>

\* parse_csv is over: its error leaves the handler; its list is bound to
\* transactions and summarize is called on it (server.py 54-55)
EndpointCallSummarize ==
    /\ request.pc = "parse"
    /\ parse_pc \in {"done", "raised"}
    /\ IF parse_pc = "raised"
       THEN /\ request' = [request EXCEPT !.pc = "responded"]
            /\ response' = <<InternalServerError>>
            /\ UNCHANGED <<tx_list, sum_pc>>
       ELSE /\ request' = [request EXCEPT !.transactions = all_tx, !.pc = "summarize"]
            /\ tx_list' = all_tx
            /\ sum_pc' = "loop"
            /\ UNCHANGED response
    /\ UNCHANGED <<uploads, tempdir, parseVars, anVars, concVars, valueVars, backendVars, pos,
                   category_totals, by_month, summary, prev_months>>

\* cat_totals, month_data, overall = summarize(transactions): the Summary that
\* summarize returns is unpacked by iteration, which gives its three
\* (field name, value) pairs (server.py 55)
EndpointUnpack ==
    /\ request.pc = "summarize"
    /\ sum_pc \in {"done", "raised"}
    /\ IF sum_pc = "raised"
       THEN /\ request' = [request EXCEPT !.pc = "responded"]
            /\ response' = <<InternalServerError>>
       ELSE /\ LET items == IterSummary(summary[1])
               IN  request' = [request EXCEPT !.cat_totals = items[1],
                                              !.month_data = items[2],
                                              !.overall = items[3],
                                              !.pc = "build"]
            /\ UNCHANGED response
    /\ UNCHANGED <<uploads, tempdir, notServer>>

\* Summary(..., savings_rate=savings_rate(month_data), ...), the removal of the
\* temporary files and the return (server.py 56-64)
EndpointReturn ==
    /\ request.pc = "build"
    /\ IF ~HasItems(request.month_data)
       THEN /\ response' = <<InternalServerError>>
            /\ UNCHANGED tempdir
       ELSE /\ response' =
                <<[status |-> 200,
                   body |-> <<[category_totals |-> request.cat_totals,
                               savings_rate    |-> savings_rate(request.month_data),
                               overall_balance |-> request.overall]>>]>>
            /\ tempdir' = EmptyTempDir
    /\ request' = [request EXCEPT !.pc = "responded"]
    /\ UNCHANGED <<uploads, notServer>>

NextServer ==
    \/ EndpointWriteTemp
    \/ EndpointCallParse
    \/ NextParse
    \/ EndpointCallSummarize
    \/ NextSum
    \/ EndpointUnpack
    \/ EndpointReturn

SpecServer == InitServer /\ [][NextServer]_vars

\* ---------------------------------------- calls of _parse_amount, _parse_date
\* the numerals of the amounts, each with its value as a fraction
AmountNumerals ==
    {[s |-> <<"5">>, num |-> 5, den |-> 1],
     [s |-> <<"1", ",", "2", "0", "0", ".", "5", "0">>, num |-> 120050, den |-> 100],
     [s |-> <<"0", ".", "2", "5">>, num |-> 25, den |-> 100],
     [s |-> <<"3", "0", "0", "0">>, num |-> 3000, den |-> 1],
     [s |-> <<"1", "2", ".", "5">>, num |-> 125, den |-> 10],
     [s |-> <<".", "5">>, num |-> 5, den |-> 10]}

\* no numeral at all
NoNumeral == [s |-> <<>>, num |-> 0, den |-> 1]

\* an amount as a bank writes it: blanks, a "$" in front or behind the sign,
\* an enclosing pair of parentheses, a sign, a numeral with "," between groups
AmountParts ==
    [lead : {<<>>, <<" ">>}, dollar : {"none", "front", "mid"}, paren : BOOLEAN,
     sign : {<<>>, <<"-">>, <<"+">>}, numeral : AmountNumerals, trail : {<<>>, <<" ">>}]
    \cup
    [lead : {<<>>, <<" ">>}, dollar : {"none", "front"}, paren : {FALSE},
     sign : {<<>>}, numeral : {NoNumeral}, trail : {<<>>, <<" ">>}]

\* the text of an amount
AmountText(p) ==
    p.lead \o (IF p.dollar = "front" THEN <<"$">> ELSE <<>>)
           \o (IF p.paren THEN <<"(">> ELSE <<>>)
           \o p.sign
           \o (IF p.dollar = "mid" THEN <<"$">> ELSE <<>>)
           \o p.numeral.s
           \o (IF p.paren THEN <<")">> ELSE <<>>)
           \o p.trail

\* the numerals of the years, months and days, each with its number
Years4 == {[s |-> <<"2", "0", "2", "4">>, n |-> 2024], [s |-> <<"2", "0", "2", "3">>, n |-> 2023]}
Years2 == {[s |-> <<"2", "4">>, n |-> 2024], [s |-> <<"6", "9">>, n |-> 1969], [s |-> <<"6", "8">>, n |-> 2068]}
Months == {[s |-> <<"1">>, n |-> 1], [s |-> <<"0", "2">>, n |-> 2], [s |-> <<"1", "2">>, n |-> 12], [s |-> <<"1", "3">>, n |-> 13]}
Days == {[s |-> <<"5">>, n |-> 5], [s |-> <<"0", "5">>, n |-> 5], [s |-> <<"2", "9">>, n |-> 29], [s |-> <<"3", "1">>, n |-> 31]}

\* a date in one of the three notations, with blanks around it
DateParts ==
    [kind : {"iso", "us4"}, lead : {<<>>, <<" ">>}, year : Years4, month : Months,
     day : Days, trail : {<<>>, <<" ">>}]
    \cup
    [kind : {"us2"}, lead : {<<>>, <<" ">>}, year : Years2, month : Months,
     day : Days, trail : {<<>>, <<" ">>}]

\* the text of a date
DateText(p) ==
    p.lead \o (IF p.kind = "iso"
               THEN p.year.s \o <<"-">> \o p.month.s \o <<"-">> \o p.day.s
               ELSE p.month.s \o <<"/">> \o p.day.s \o <<"/">> \o p.year.s)
           \o p.trail

\* texts in none of the three notations
OtherDateTexts ==
    {<<>>, <<"b", "a", "d">>, <<"2", "0", "2", "4", "/", "0", "1", "/", "0", "5">>, <<"0", "1", "-", "0", "5", "-", "2", "0", "2", "4">>, <<"2", "0", "2", "4", "-", "0", "1", "-", "0", "5", "T", "1", "0", ":", "0", "0">>, <<"0", "1", "/", "0", "5", "/", "2", "0", "2">>}

\* for fmt in ("%Y-%m-%d", "%m/%d/%Y", "%m/%d/%y")
DateFormats == <<"%Y-%m-%d", "%m/%d/%Y", "%m/%d/%y">>

\* datetime.strptime(text, fmt).date()
Strptime(text, fmt) ==
    IF fmt = "%Y-%m-%d" THEN StrptimeIso(text)
    ELSE IF fmt = "%m/%d/%Y" THEN StrptimeUs4(text)
    ELSE StrptimeUs2(text)

InitValues ==
    /\ BackendIdle
    /\ SumIdle
    /\ ParseIdle
    /\ AnalysisIdle
    /\ ConcIdle
    /\ ServerIdle
    /\ \/ /\ vp_fn = "amount"
          /\ vp_parts \in AmountParts
          /\ vp_text = AmountText(vp_parts)
          /\ vp_pc = "clean"
       \/ /\ vp_fn = "date"
          /\ vp_parts \in DateParts
          /\ vp_text = DateText(vp_parts)
          /\ vp_pc = "formats"
       \/ /\ vp_fn = "date"
          /\ vp_parts = [kind |-> "other"]
          /\ vp_text \in OtherDateTexts
          /\ vp_pc = "formats"
    /\ vp_cleaned = <<>>
    /\ vp_fmt = 1
    /\ vp_result = <<>>

\* cleaned = text.replace("$", "").replace(",", "").strip() (core.py 65)
AmountClean ==
    /\ vp_pc = "clean"
    /\ vp_cleaned' = <<Cleaned(vp_text)>>
    /\ vp_pc' = "branch"
    /\ UNCHANGED <<vp_fn, vp_text, vp_parts, vp_fmt, vp_result, notValue>>

\* the three returns of _parse_amount; float raises ValueError (core.py 66-70)
AmountReturn ==
    /\ vp_pc = "branch"
    /\ LET cleaned == vp_cleaned[1]
           v == IF cleaned = <<>> THEN 0
                ELSE IF IsParenthesized(cleaned)
                THEN LET f == PyFloat(SubSeq(cleaned, 2, Len(cleaned) - 1))
                     IN  IF f = ValueError THEN ValueError ELSE FNeg(f)
                ELSE PyFloat(cleaned)
       IN  IF v = ValueError
           THEN vp_pc' = "raised" /\ UNCHANGED vp_result
           ELSE vp_pc' = "done" /\ vp_result' = <<v>>
    /\ UNCHANGED <<vp_fn, vp_text, vp_parts, vp_cleaned, vp_fmt, notValue>>

\* one pass of the loop over the formats: return the date, or continue after
\* the ValueError of strptime (core.py 55-59)
DateTry ==
    /\ vp_pc = "formats"
    /\ vp_fmt <= Len(DateFormats)
    /\ LET parsed == Strptime(Strip(vp_text), DateFormats[vp_fmt])
       IN  IF parsed.ok
           THEN vp_pc' = "done" /\ vp_result' = <<parsed.date>> /\ UNCHANGED vp_fmt
           ELSE vp_fmt' = vp_fmt + 1 /\ UNCHANGED <<vp_pc, vp_result>>
    /\ UNCHANGED <<vp_fn, vp_text, vp_parts, vp_cleaned, notValue>>

\* raise ValueError(f"Unsupported date format: {text}") (core.py 60)
DateRaise ==
    /\ vp_pc = "formats"
    /\ vp_fmt > Len(DateFormats)
    /\ vp_pc' = "raised"
    /\ UNCHANGED <<vp_fn, vp_text, vp_parts, vp_cleaned, vp_fmt, vp_result, notValue>>

NextValues ==
    \/ AmountClean
    \/ AmountReturn
    \/ DateTry
    \/ DateRaise

SpecValues == InitValues /\ [][NextValues]_vars

\* ------------------------------------- calls of _parse_amount on other texts
\* texts that are not signed decimal numerals
MalformedResidues ==
    {<<"a", "b", "c">>, Str_nan, <<"N", "a", "N">>, <<"1", ".", "2", ".", "3">>, <<"-", "-", "5">>, <<"5", "x">>, <<"-">>, <<".">>}

\* such a text as an amount cell holds it: blanks and a "$" in front, an
\* enclosing pair of parentheses (also around nothing)
MalformedParts ==
    [lead : {<<>>, <<" ">>}, dollar : BOOLEAN, paren : BOOLEAN,
     residue : MalformedResidues, trail : {<<>>, <<" ">>}]
    \cup
    [lead : {<<>>, <<" ">>}, dollar : BOOLEAN, paren : {TRUE},
     residue : {<<>>}, trail : {<<>>, <<" ">>}]

MalformedText(p) ==
    p.lead \o (IF p.dollar THEN <<"$">> ELSE <<>>)
           \o (IF p.paren THEN <<"(">> ELSE <<>>)
           \o p.residue
           \o (IF p.paren THEN <<")">> ELSE <<>>)
           \o p.trail

InitMalformed ==
    /\ BackendIdle
    /\ SumIdle
    /\ ParseIdle
    /\ AnalysisIdle
    /\ ConcIdle
    /\ ServerIdle
    /\ \/ /\ vp_fn = "amount"
          /\ vp_parts \in MalformedParts
          /\ vp_text = MalformedText(vp_parts)
          /\ vp_pc = "clean"
       \/ /\ vp_fn = "date"
          /\ vp_parts = [kind |-> "other"]
          /\ vp_text \in OtherDateTexts
          /\ vp_pc = "formats"
    /\ vp_cleaned = <<>>
    /\ vp_fmt = 1
    /\ vp_result = <<>>

SpecMalformed == InitMalformed /\ [][NextValues]_vars

\* ------------------------------------------------- claims about summarize
Done == sum_pc = "done"

\* the amounts of the input, in input order
Amounts(txs) == [i \in DOMAIN txs |-> txs[i].amount]

\* the transactions of category c, in input order
OfCategory(txs, c) == SelectSeq(txs, LAMBDA tx : tx.category = c)

\* the sum of the magnitudes of the amounts, in grid units, without rounding
RECURSIVE SumAbs(_)
SumAbs(txs) == IF txs = <<>> THEN 0 ELSE Abs(Head(txs).amount) + SumAbs(Tail(txs))

\* the sum of the amounts, in grid units, without rounding
RECURSIVE SumExact(_)
SumExact(txs) == IF txs = <<>> THEN 0 ELSE Head(txs).amount + SumExact(Tail(txs))

\* no addition over these amounts can round: every partial sum fits a float
ExactArithmetic(txs) == SumAbs(txs) < Pow2(MantDig)

\* the month buckets whose accumulated income is positive
MonthsWithIncome == {k \in Range(by_month.keys) : by_month.val[k].income > 0}

C4_ZeroIncomeOmitted ==
    /\ sum_pc # "raised"
    /\ Done =>
         /\ Range(summary[1].savings_rate.keys)
               = {MonthKey(k[1], k[2]) : k \in MonthsWithIncome}
         /\ \A k \in Range(by_month.keys) :
               by_month.val[k].income = 0
                  => MonthKey(k[1], k[2]) \notin Range(summary[1].savings_rate.keys)

\* a summary with a month that has expenses and no income, beside one with income
C4_Witness ==
    /\ Done
    /\ \E k \in Range(by_month.keys) :
          by_month.val[k].income = 0 /\ by_month.val[k].expenses > 0
    /\ MonthsWithIncome # {}

\* "YYYY-MM": the year in four digits, the month in two
MonthKeyPadded(year, month) ==
    (IF year < 10 THEN <<"0", "0", "0">>
     ELSE IF year < 100 THEN <<"0", "0">>
     ELSE IF year < 1000 THEN <<"0">> ELSE <<>>)
    \o IntStr(year) \o <<"-">> \o Pad2(month)

\* C5 as stated: every month with income > 0 has, under the key "YYYY-MM" with a
\* four-digit year, the rate (income - expenses) / income * 100.
C5_RateUnderPaddedKey ==
    Done => \A k \in MonthsWithIncome :
               /\ MonthKeyPadded(k[1], k[2]) \in Range(summary[1].savings_rate.keys)
               /\ summary[1].savings_rate.val[MonthKeyPadded(k[1], k[2])]
                     = FMul(FDiv(FSub(by_month.val[k].income, by_month.val[k].expenses),
                                 by_month.val[k].income), Hundred)

C7_CategoryTotals ==
    Done => /\ Range(summary[1].category_totals.keys)
                  = {tx_list[i].category : i \in DOMAIN tx_list}
            /\ \A c \in Range(summary[1].category_totals.keys) :
                  summary[1].category_totals.val[c]
                     = PySum(Amounts(OfCategory(tx_list, c)))

\* a summary over two categories, one of them with two nonzero amounts
C7_Witness ==
    /\ Done
    /\ Len(summary[1].category_totals.keys) = 2
    /\ \E c \in SumCategories :
          /\ Len(OfCategory(tx_list, c)) = 2
          /\ \A i \in 1..2 : OfCategory(tx_list, c)[i].amount # 0

\* the bucket of month k in a month dict, the fresh bucket when it has none
BucketOf(months, k) == DictGet(months, k, NewBucket)

\* C8: a pass of the loop over a transaction with amount >= 0 adds the amount to
\* the income of the bucket of its (year, month) and leaves its expenses alone;
\* with amount < 0 it adds |amount| to the expenses and leaves the income alone;
\* with amount 0 the bucket exists afterwards and neither total has changed.
\* No other bucket changes.
C8_IncomeExpenseSplit ==
    (pos > 0) =>
        LET tx  == tx_list[pos]
            k   == <<tx.date.year, tx.date.month>>
            old == BucketOf(prev_months, k)
            new == BucketOf(by_month, k)
        IN  /\ HasKey(by_month, k)
            /\ tx.amount >= 0 =>
                  new.income = FAdd(old.income, tx.amount) /\ new.expenses = old.expenses
            /\ tx.amount < 0 =>
                  new.expenses = FAdd(old.expenses, Abs(tx.amount)) /\ new.income = old.income
            /\ tx.amount = 0 => new = old
            /\ \A j \in Range(prev_months.keys) \ {k} :
                  HasKey(by_month, j) /\ by_month.val[j] = prev_months.val[j]
            /\ Range(by_month.keys) = Range(prev_months.keys) \cup {k}

\* the loop has just processed an expense in a month that already had income,
\* after a zero amount opened another month
C8_Witness ==
    /\ pos = 3
    /\ tx_list[1].amount = 0
    /\ tx_list[2].amount > 0
    /\ tx_list[3].amount < 0
    /\ tx_list[2].date = tx_list[3].date
    /\ tx_list[1].date # tx_list[2].date

\* the permutations of a list
RECURSIVE Perms(_)
Perms(s) ==
    IF s = <<>> THEN {<<>>}
    ELSE UNION {{<<s[i]>> \o p :
                    p \in Perms([j \in 1..(Len(s) - 1) |-> IF j < i THEN s[j] ELSE s[j + 1]])}
                : i \in DOMAIN s}

\* two summaries equal as mappings and balance
SameSummary(a, b) ==
    /\ AsMap(a.category_totals) = AsMap(b.category_totals)
    /\ AsMap(a.savings_rate) = AsMap(b.savings_rate)
    /\ a.overall_balance = b.overall_balance

\* C9 as stated: summarize returns equal category_totals, savings_rate and
\* overall_balance for every permutation of its input.
C9_OrderIndependent ==
    Done => \A p \in Perms(tx_list) : SameSummary(Summarize(p), summary[1])

\* C9 amended: for every permutation of the input the key sets of category_totals
\* and savings_rate are the same, and the values and overall_balance are equal too
\* whenever no addition can round.
C9_OrderIndependentExact ==
    Done => \A p \in Perms(tx_list) :
               LET sp == Summarize(p)
               IN  /\ Range(sp.category_totals.keys) = Range(summary[1].category_totals.keys)
                   /\ Range(sp.savings_rate.keys) = Range(summary[1].savings_rate.keys)
                   /\ ExactArithmetic(tx_list) => SameSummary(sp, summary[1])

\* a summary of three distinct transactions with income and expenses in one
\* month, small enough to add without rounding
C9_Witness ==
    /\ Done
    /\ Len(tx_list) = 3
    /\ Cardinality(Perms(tx_list)) = 6
    /\ ExactArithmetic(tx_list)
    /\ \E k \in MonthsWithIncome : by_month.val[k].expenses > 0
    /\ Len(by_month.keys) = 2

\* ------------------------------------------------- claims about parse_csv
\* parse_csv has returned or raised
Terminal == parse_pc \in {"done", "raised"}

\* parse_csv(p) for one path p given as a str, in the running process
ParseOne(p) == ParseCsv(StrPath(p), files, hash_seed)

\* C2: for two files a and b that both parse, parse_csv([a, b]) returns the list
\* parse_csv(a) followed by the list parse_csv(b); and parse_csv on one path
\* gives the same, the list or the error, whether the path is passed as a str
\* or as a list of one str.
C2_Concatenation ==
    Terminal =>
        /\ (/\ paths = ListPaths(<<Path_a, Path_b>>)
            /\ ~ParseOne(Path_a).raised
            /\ ~ParseOne(Path_b).raised)
              => Outcome = [raised |-> FALSE,
                            txs    |-> ParseOne(Path_a).txs \o ParseOne(Path_b).txs]
        /\ Len(PathList(paths)) = 1
              => /\ Outcome = ParseOne(PathList(paths)[1])
                 /\ Outcome = ParseCsv(ListPaths(<<PathList(paths)[1]>>), files, hash_seed)

\* parse_csv([a, b]) has returned three transactions, two of them from a, and
\* the one from b differs from the first of a
C2_Witness ==
    /\ parse_pc = "done"
    /\ paths = ListPaths(<<Path_a, Path_b>>)
    /\ Len(all_tx) = 3
    /\ Len(ParseOne(Path_b).txs) = 1
    /\ all_tx[1] # all_tx[2]
    /\ all_tx[3] # all_tx[1]

\* the date cell of the row holds a date in one of the three formats
GoodDate(csv, row) == _parse_date(CellStr(row, csv.date_idx)).ok

\* the amount cell, or the credit and debit cells, hold what float() accepts
GoodAmount(csv, row) == RowAmount(csv, row) # ValueError

\* the record of a row that parses
RecordOf(csv, row) ==
    [date     |-> _parse_date(CellStr(row, csv.date_idx)).date,
     category |-> RowCategory(csv, row),
     amount   |-> RowAmount(csv, row)]

\* the records of those of the first n rows of the frame that parse, in order
ParsedRows(csv, n) ==
    LET good == SelectSeq(SubSeq(csv.rows, 1, n),
                          LAMBDA row : GoodDate(csv, row) /\ GoodAmount(csv, row))
    IN  [i \in DOMAIN good |-> RecordOf(csv, good[i])]

\* C10: when a file has a header with a date column, parse_csv on it does not
\* raise, whatever its rows are; after every pass of the loop the list built is
\* the records of the rows so far that have a good date and a good amount, in
\* the order of the file, and nothing else; and that is what parse_csv returns.
C10_BadRowsSkipped ==
    /\ parse_pc = "rows" => transactions = ParsedRows(ctx, row_idx - 1)
    /\ (Terminal /\ Len(PathList(paths)) = 1) =>
          LET csv == OpenCsv(files[PathList(paths)[1]], hash_seed)
          IN  ~csv.raised =>
                 Outcome = [raised |-> FALSE, txs |-> ParsedRows(csv, Len(csv.rows))]

\* parse_csv has returned the record of a good row that stands between a row
\* with a bad date and a row with a bad amount
C10_Witness ==
    /\ parse_pc = "done"
    /\ Len(PathList(paths)) = 1
    /\ all_tx # <<>>
    /\ LET csv == OpenCsv(files[PathList(paths)[1]], hash_seed)
       IN  \E i, j, k \in DOMAIN csv.rows :
              /\ i < j /\ j < k
              /\ ~GoodDate(csv, csv.rows[i])
              /\ GoodDate(csv, csv.rows[j]) /\ GoodAmount(csv, csv.rows[j])
              /\ GoodDate(csv, csv.rows[k]) /\ ~GoodAmount(csv, csv.rows[k])

\* C3: parse_csv is deterministic: every invocation on the same file content,
\* in the same run of the program or in another run, returns the same list of
\* transactions (or raises) as every earlier invocation did.
C3_Deterministic == Terminal => \A i \in DOMAIN runs : runs[i] = Outcome

\* no line of the file has three columns or more with a date name among them
NoDateColumn(lines) == \A i \in DOMAIN lines : ~IsHeaderLine(lines[i])

\* the paths of the call whose file has no date column
BadPaths == {i \in DOMAIN PathList(paths) : NoDateColumn(files[PathList(paths)[i]])}

\* C11: when a path passed to parse_csv names a file in which no date column
\* can be found, parse_csv raises and returns no list: the transactions of
\* the files before it are not returned, and the loop has stopped at the first
\* such file, without opening any file after it.
C11_NoDateColumnRaises ==
    /\ parse_pc = "done" => BadPaths = {}
    /\ parse_pc = "raised" =>
          /\ BadPaths # {}
          /\ Outcome = [raised |-> TRUE, txs |-> <<>>]
          /\ file_idx \in BadPaths
          /\ \A i \in BadPaths : file_idx <= i

\* parse_csv has raised at the second of two files, with transactions of the
\* first file in hand
C11_Witness ==
    /\ parse_pc = "raised"
    /\ file_idx = 2
    /\ all_tx # <<>>

\* parse_csv has raised at the first of two files, the second of which parses
C11_WitnessFirst ==
    /\ parse_pc = "raised"
    /\ file_idx = 1
    /\ Len(PathList(paths)) = 2
    /\ ~NoDateColumn(files[Path_b])

\* the file has no header line and the first cell of its first line is a date
Headerless(lines) ==
    /\ lines # <<>>
    /\ NoDateColumn(lines)
    /\ _parse_date(Split(lines[1], ",")[1]).ok

\* C12: parse_csv on a file without a header line whose first cell is a date
\* does not raise, and returns what it returns for the same lines under the
\* header line "Date,Category,Amount".
C12_HeaderlessAccepted ==
    (Terminal /\ Len(PathList(paths)) = 1 /\ Headerless(files[Path_a])) =>
        Outcome = ParseCsv(StrPath(Path_a),
                           FileSystem(<<Line_H1>> \o files[Path_a], <<>>), hash_seed)

\* ------------------------- claims about the month and year-over-year functions
\* get_month_details has returned
MonthDone == an_pc = "done" /\ an_month # <<>>

\* yoy_monthly_expenses has returned
YoyDone == an_pc = "done" /\ an_month = <<>>

\* the transactions whose date, written "YYYY-MM", is the string month
OfMonth(txs, month) ==
    SelectSeq(txs, LAMBDA tx : MonthKey(tx.date.year, tx.date.month) = month)

\* C13: the mapping returned by get_month_details(transactions, "YYYY-MM") has
\* as keys exactly the categories of the transactions dated in that year and
\* month, each mapped to the sum of the amounts of those transactions (added
\* up in input order); transactions of other months add nothing, and the
\* mapping is empty when no transaction is of that month.
C13_MonthDetails ==
    MonthDone =>
        LET of_month == OfMonth(an_txs, an_month)
            result   == an_result[1]
        IN  /\ Range(result.keys) = {of_month[i].category : i \in DOMAIN of_month}
            /\ \A c \in Range(result.keys) :
                  result.val[c] = PySum(Amounts(OfCategory(of_month, c)))
            /\ of_month = <<>> => result = EmptyDict

\* a mapping with a category summed over two transactions, returned for a
\* list that also holds a transaction of another month
C13_Witness ==
    /\ MonthDone
    /\ Len(OfMonth(an_txs, an_month)) = 2
    /\ Len(an_txs) = 3
    /\ \E c \in Range(an_result[1].keys) :
          /\ Len(OfCategory(OfMonth(an_txs, an_month), c)) = 2
          /\ Len(OfCategory(an_txs, c)) = 3

\* the expense transactions (amount < 0) of the calendar month mm, in input order
ExpensesOf(txs, mm) ==
    SelectSeq(txs, LAMBDA tx : tx.amount < 0 /\ Pad2(tx.date.month) = mm)

\* their magnitudes
Magnitudes(txs) == [i \in DOMAIN txs |-> Abs(txs[i].amount)]

\* C14: yoy_monthly_expenses maps every calendar month "MM" that has a
\* transaction with amount < 0, and no other, to the total of |amount| over
\* the expense transactions of that calendar month in all years (added up in
\* input order), divided by the number of distinct (year, month) pairs among
\* them; the income transactions do not change the result.
C14_YoyAverage ==
    YoyDone =>
        LET result == an_result[1]
        IN  /\ Range(result.keys)
                  = {Pad2(an_txs[i].date.month) :
                        i \in {j \in DOMAIN an_txs : an_txs[j].amount < 0}}
            /\ \A mm \in Range(result.keys) :
                  LET exp == ExpensesOf(an_txs, mm)
                  IN  result.val[mm]
                         = FDiv(PySum(Magnitudes(exp)),
                                FromInt(Cardinality(
                                   {<<exp[i].date.year, exp[i].date.month>> :
                                       i \in DOMAIN exp})))
            /\ AsMap(result)
                  = AsMap(yoy_monthly_expenses(
                             SelectSeq(an_txs, LAMBDA tx : tx.amount < 0)))

\* an average over the Januaries of two years, returned for a list that also
\* holds an income
C14_Witness ==
    /\ YoyDone
    /\ \E i \in DOMAIN an_txs : an_txs[i].amount > 0
    /\ \E mm \in Range(an_result[1].keys) :
          /\ Len(ExpensesOf(an_txs, mm)) = 2
          /\ Cardinality({ExpensesOf(an_txs, mm)[i].date.year :
                             i \in DOMAIN ExpensesOf(an_txs, mm)}) = 2

\* ------------------------------------------ claims about concurrent invocations
\* what parse_csv followed by summarize gives on the file under path p when
\* it runs alone: the Summary, or nothing when one of the two raised
Alone(p) ==
    LET parsed == ParseOne(p)
    IN  IF parsed.raised THEN [pc |-> "raised", result |-> <<>>]
        ELSE LET alone_summary == Summarize(parsed.txs)
             IN  IF \E k \in Range(alone_summary.savings_rate.keys) :
                        alone_summary.savings_rate.val[k] = ZeroDivisionError
                 THEN [pc |-> "raised", result |-> <<>>]
                 ELSE [pc |-> "done", result |-> <<alone_summary>>]

\* invocation i is over
Finished(i) == Locals(i).pc \in {"done", "raised"}

\* C15: of two invocations of parse_csv followed by summarize that run at the
\* same time, each on its own file, in any interleaving of their steps, each
\* returns (or raises) what it does when it runs alone on its file.
C15_Isolation ==
    \A i \in Invocations :
        Finished(i) =>
            /\ Locals(i).pc = Alone(InvPath(i)).pc
            /\ Locals(i).result = Alone(InvPath(i)).result

\* both invocations have returned, with different summaries, the second
\* having finished while the first was still parsing its rows
C15_Witness ==
    /\ \A i \in Invocations : Locals(i).pc = "done"
    /\ Locals(1).result # Locals(2).result
    /\ Len(Locals(1).tx_list) >= 2
    /\ Len(Locals(2).tx_list) >= 1

\* ------------------------------------------------ claims about POST /summarize
\* every uploaded file parses
AllParse == \A n \in DOMAIN uploads : ~OpenCsv(uploads[n], hash_seed).raised

\* the transactions of the uploaded files, file after file
RECURSIVE UploadedTransactions(_)
UploadedTransactions(n) ==
    IF n = 0 THEN <<>>
    ELSE UploadedTransactions(n - 1)
         \o ParseCsvFile(uploads[n], hash_seed).txs

\* C16: POST /summarize with uploaded files that all parse answers 200 with
\* the Summary over the transactions of all the files, one file after the
\* other: its overall_balance covers every amount and its savings_rate has the
\* rate of every month with income.
C16_SummarizeEndpoint ==
    (request.pc = "responded" /\ AllParse) =>
        /\ response[1].status = 200
        /\ response[1].body = <<Summarize(UploadedTransactions(Len(uploads)))>>

\* ---------------------------------------------- claims about the value parsers
\* the call of the value parser is over
ValueTerminal == vp_pc \in {"done", "raised"}

\* the float an amount written from the pieces p stands for: nothing written
\* is 0.0; a "-" negates the numeral, and so does the pair of parentheses
AmountValue(p) ==
    LET magnitude == RoundQ(p.numeral.num * Unit, p.numeral.den)
        signed    == IF p.sign = <<"-">> THEN -magnitude ELSE magnitude
    IN  IF p.numeral = NoNumeral THEN 0
        ELSE IF p.paren THEN -signed ELSE signed

\* C17: _parse_amount takes every "$" and "," and the blanks around the text
\* away and returns 0.0 when nothing is left, minus the enclosed number when
\* the rest is in parentheses and the signed decimal value of the rest
\* otherwise; "(1,200.50)" gives the float nearest to -1200.50.
C17_ParseAmount ==
    (vp_fn = "amount" /\ ValueTerminal) =>
        /\ vp_pc = "done"
        /\ vp_result = <<AmountValue(vp_parts)>>
        /\ vp_text = <<"(", "1", ",", "2", "0", "0", ".", "5", "0", ")">>
               => vp_result = <<-RoundQ(120050 * Unit, 100)>>

\* "(1,200.50)" has been parsed, with a "$" in front and blanks around it
C17_Witness ==
    /\ vp_fn = "amount"
    /\ vp_pc = "done"
    /\ vp_text = <<" ", "$", "(", "1", ",", "2", "0", "0", ".", "5", "0", ")", " ">>
    /\ vp_result[1] < 0

\* the day the pieces p of a date name, when the calendar has it
IsCalendarDay(p) ==
    /\ p.month.n \in 1..12
    /\ p.day.n \in 1..DaysInMonth(p.year.n, p.month.n)

\* C18: _parse_date tries "%Y-%m-%d", "%m/%d/%Y" and "%m/%d/%y" in this order
\* on the text without the blanks around it and returns the date of the first
\* format that parses; when none parses it raises and returns no date.
C18_ParseDate ==
    (vp_fn = "date" /\ ValueTerminal) =>
        IF vp_parts.kind # "other" /\ IsCalendarDay(vp_parts)
        THEN /\ vp_pc = "done"
             /\ vp_result = <<[year  |-> vp_parts.year.n,
                               month |-> vp_parts.month.n,
                               day   |-> vp_parts.day.n]>>
             /\ DateFormats[vp_fmt] =
                    (IF vp_parts.kind = "iso" THEN "%Y-%m-%d"
                     ELSE IF vp_parts.kind = "us4" THEN "%m/%d/%Y" ELSE "%m/%d/%y")
             /\ \A k \in 1..(vp_fmt - 1) : ~Strptime(Strip(vp_text), DateFormats[k]).ok
        ELSE /\ vp_pc = "raised"
             /\ vp_result = <<>>
             /\ vp_fmt = Len(DateFormats) + 1

\* a date with a two-digit year has been returned by the third format, after
\* the first two failed on it
C18_Witness ==
    /\ vp_fn = "date"
    /\ vp_pc = "done"
    /\ vp_fmt = 3
    /\ vp_parts.lead = <<" ">>
    /\ vp_result[1] = [year |-> 1969, month |-> 2, day |-> 5]

\* no format parses the text: the call has raised
C18_WitnessRaised ==
    /\ vp_fn = "date"
    /\ vp_pc = "raised"
    /\ vp_parts.kind = "iso"
    /\ vp_parts.month.n = 2
    /\ vp_parts.day.n = 29
    /\ vp_parts.year.n = 2023

\* --------------------------------------------- claims about header detection
\* the position (from 1) of the first of the header lines in lines, 0 when
\* there is none
FirstHeader(lines) ==
    IF \E k \in DOMAIN lines : lines[k] \in HeaderLines
    THEN CHOOSE k \in DOMAIN lines :
            /\ lines[k] \in HeaderLines
            /\ \A j \in 1..(k - 1) : lines[j] \notin HeaderLines
    ELSE 0

\* C19: the header is the first line, in file order, with three or more columns
\* one of which is, trimmed and in lower case, a date-field name; what stands
\* in front of it gives no transaction, and a line with fewer than three
\* columns is never the header, whatever names it has: the file parses as the
\* file that starts at its header line, and a file whose only date-field names
\* are in lines of fewer than three columns has no header at all.
C19_HeaderDetection ==
    Terminal =>
        LET lines == files[Path_a]
            k     == FirstHeader(lines)
        IN  /\ _find_header_line(lines) = k - 1
            /\ IF k = 0 THEN Outcome = [raised |-> TRUE, txs |-> <<>>]
               ELSE Outcome = ParseCsv(StrPath(Path_a),
                                       FileSystem(SubSeq(lines, k, Len(lines)), <<>>),
                                       hash_seed)

\* a file whose header stands behind a two-column line with a date-field name
\* and a line of data has been parsed: the one row behind the header is the
\* only transaction
C19_Witness ==
    /\ parse_pc = "done"
    /\ files[Path_a] = <<Line_DA, Line_R1, Line_H2, Line_R5, Line_R3>>
    /\ Len(all_tx) = 1
    /\ all_tx[1].date.day = 31

\* ------------------------------------------------ claims about the column choice
\* the column (from 0) of the first name of the listing, in the order it is
\* written, that the header has; -1 when it has none
FirstListed(columns, listing) == FindFrom(Normalized(columns), listing, 1)

\* C20: when a header has several of the accepted names of one field, the
\* column of the field is that of the name that comes first in the field's
\* list of names (category before description, date before posting date),
\* wherever the columns stand; names compare trimmed and in lower case.
C20_FirstListedNameWins ==
    parse_pc = "rows" =>
        LET lines   == files[CurrentPath]
            columns == ReadCsv(lines, _find_header_line(lines)).columns
        IN  /\ ctx.category_idx = FirstListed(columns, CATEGORY_FIELDS)
            /\ ctx.date_idx = FirstListed(columns, DATE_FIELDS)
            /\ ctx.amount_idx = FirstListed(columns, AMOUNT_FIELDS)

\* ------------------------------------------------------ claims about the rows
\* the position (from 1) of the first column of the header line with one of
\* the names, 0 when there is none
ColumnNamed(header_line, names) ==
    LET columns == Columns(header_line)
    IN  IF \E k \in DOMAIN columns : columns[k] \in names
        THEN CHOOSE k \in DOMAIN columns :
                /\ columns[k] \in names
                /\ \A j \in 1..(k - 1) : columns[j] \notin names
        ELSE 0

\* the cells of a line as they are written in the file
WrittenCells(line) == Split(line, ",")

\* the row has a cell under every column of the header
IsFullRow(header_line, line) == Len(WrittenCells(line)) = Len(WrittenCells(header_line))

\* the file of the run is a header line and one row with a cell under every
\* column, and parse_csv has returned a transaction for it
OneFullRowParsed ==
    /\ parse_pc = "done"
    /\ Len(files[Path_a]) = 2
    /\ IsFullRow(files[Path_a][1], files[Path_a][2])
    /\ Len(all_tx) = 1

\* the amount the cells of the row stand for: that of the amount cell, or
\* credit minus debit with 0.0 for a column the header does not have
WrittenAmount(header_line, line) ==
    LET cells  == WrittenCells(line)
        amount == ColumnNamed(header_line, Range(AMOUNT_FIELDS))
        credit == ColumnNamed(header_line, Range(CREDIT_FIELDS))
        debit  == ColumnNamed(header_line, Range(DEBIT_FIELDS))
    IN  IF amount # 0 THEN _parse_amount(cells[amount])
        ELSE FSub(IF credit # 0 THEN _parse_amount(cells[credit]) ELSE 0,
                  IF debit # 0 THEN _parse_amount(cells[debit]) ELSE 0)

\* C21: the amount of the transaction of a row is the parsed amount cell when
\* the header has an amount column, whatever the credit and debit cells hold;
\* without an amount column it is the parsed credit cell minus the parsed
\* debit cell, a column the header does not have counting as 0.
C21_AmountOfRow ==
    OneFullRowParsed =>
        all_tx[1].amount = WrittenAmount(files[Path_a][1], files[Path_a][2])

\* the category the cells of the row stand for
WrittenCategory(header_line, line) ==
    LET category == ColumnNamed(header_line, Range(CATEGORY_FIELDS))
    IN  IF category = 0 THEN Str_uncategorized ELSE WrittenCells(line)[category]

\* C22: the transactions of a file whose header has none of the columns
\* category, description, transaction type, type, details have the category
\* "uncategorized"; with such a column the category of a transaction is the
\* text of the row's cell in that column.
C22_CategoryOfRow ==
    OneFullRowParsed =>
        all_tx[1].category = WrittenCategory(files[Path_a][1], files[Path_a][2])

\* C23: for a text that, without "$", "," and the blanks around it (and without
\* an enclosing pair of parentheses), is not a signed decimal numeral,
\* _parse_amount raises and returns no number.
C23_MalformedAmountRaises ==
    (vp_fn = "amount" /\ ValueTerminal) =>
        /\ vp_pc = "raised"
        /\ vp_result = <<>>

\* the number of cells a row needs under the header: the position of the last
\* column that the mapping uses
RequiredCells(header_line) ==
    LET used == {ColumnNamed(header_line, Range(DATE_FIELDS)),
                 ColumnNamed(header_line, Range(AMOUNT_FIELDS)),
                 ColumnNamed(header_line, Range(CREDIT_FIELDS)),
                 ColumnNamed(header_line, Range(DEBIT_FIELDS)),
                 ColumnNamed(header_line, Range(CATEGORY_FIELDS))}
    IN  CHOOSE n \in used : \A k \in used : k <= n

\* the data lines (by position) of the file that are not empty and have the
\* cells the mapping needs
CompleteRows(lines) ==
    {k \in 2..Len(lines) :
        /\ lines[k] # Line_Blank
        /\ Len(WrittenCells(lines[k])) >= RequiredCells(lines[1])}

\* C24: a row that is empty or has fewer cells than the mapping needs gives no
\* transaction, and the rows after it are parsed: parse_csv returns, with at
\* most one transaction for each row that has its cells, and with the
\* transactions of the full rows around a short or empty row.
C24_ShortRowsSkipped ==
    parse_pc = "done" =>
        /\ Len(all_tx) <= Cardinality(CompleteRows(files[Path_a]))
        /\ (Len(files[Path_a]) = 4 /\ files[Path_a][3] # Line_R4) => Len(all_tx) = 2

\* ------------------------------------- summarize of what parse_csv can return
\* the amounts of parsed rows: _parse_amount gives nan for an empty or missing
\* amount cell
ParsedAmounts == {NaN, -1, 1}
ParsedTransactions == [date : SumDates, category : {"rent"}, amount : ParsedAmounts]

InitParsedSum ==
    /\ BackendIdle
    /\ tx_list \in SeqsUpTo(ParsedTransactions, MaxTx)
    /\ pos = 0
    /\ category_totals = EmptyDict
    /\ by_month = EmptyDict
    /\ sum_pc = "loop"
    /\ summary = <<>>
    /\ prev_months = EmptyDict
    /\ ParseIdle
    /\ AnalysisIdle
    /\ ConcIdle
    /\ ServerIdle
    /\ ValueIdle

SpecParsedSum == InitParsedSum /\ [][NextSum]_vars

\* --------------------------------------------- claims about the month buckets
\* the transactions of month k, in input order
OfBucket(txs, k) == SelectSeq(txs, LAMBDA tx : <<tx.date.year, tx.date.month>> = k)

\* the amounts >= 0 of the transactions, and the magnitudes of the amounts < 0
Earned(txs) == Amounts(SelectSeq(txs, LAMBDA tx : tx.amount >= 0))
Spent(txs) ==
    LET spent == SelectSeq(txs, LAMBDA tx : tx.amount < 0)
    IN  [i \in DOMAIN spent |-> -spent[i].amount]

\* income - expenses added up over the buckets, in grid units, without rounding
RECURSIVE NetFrom(_, _)
NetFrom(months, i) ==
    IF i > Len(months.keys) THEN 0
    ELSE months.val[months.keys[i]].income - months.val[months.keys[i]].expenses
         + NetFrom(months, i + 1)
BucketsNet(months) == NetFrom(months, 1)

\* every transaction is in the totals of the bucket of its month and of its
\* category, and in no other
EachInOneBucket ==
    /\ \A k \in Range(by_month.keys) :
          /\ by_month.val[k].income = PySum(Earned(OfBucket(tx_list, k)))
          /\ by_month.val[k].expenses = PySum(Spent(OfBucket(tx_list, k)))
    /\ \A c \in Range(category_totals.keys) :
          category_totals.val[c] = PySum(Amounts(OfCategory(tx_list, c)))

\* C25 as stated: every transaction is in exactly one month bucket and one
\* category total, and income - expenses added up over the month buckets
\* equals overall_balance.
C25_BucketsBalance ==
    Done => /\ EachInOneBucket
            /\ BucketsNet(by_month) = summary[1].overall_balance

\* C25 amended: every transaction is in exactly one month bucket and one
\* category total; income - expenses added up over the month buckets equals
\* overall_balance whenever no addition can round.
C25_BucketsBalanceExact ==
    Done => /\ EachInOneBucket
            /\ ExactArithmetic(tx_list) =>
                  BucketsNet(by_month) = summary[1].overall_balance

\* a summary of an income and an expense of one month and an income of
\* another, small enough to add without rounding
C25_Witness ==
    /\ Done
    /\ Len(tx_list) = 3
    /\ ExactArithmetic(tx_list)
    /\ Len(by_month.keys) = 2
    /\ \E k \in Range(by_month.keys) :
          by_month.val[k].income = 2 /\ by_month.val[k].expenses = 1
    /\ summary[1].overall_balance = 2

\* the (year, month) pairs of the transactions processed so far
ProcessedMonths == {BucketKey(tx_list[i]) : i \in 1..pos}

\* C26: after any prefix of the transaction list every month bucket has
\* income >= 0 and expenses >= 0, and there is exactly one bucket for each
\* (year, month) of the transactions processed so far and no other.
C26_BucketsNonNegative ==
    sum_pc \in {"loop", "done"} =>
        /\ \A k \in Range(by_month.keys) :
              FGe0(by_month.val[k].income) /\ FGe0(by_month.val[k].expenses)
        /\ Range(by_month.keys) = ProcessedMonths
        /\ Len(by_month.keys) = Cardinality(ProcessedMonths)

\* ----------------------------------------- claims about the temporary files
\* C27: when the response or the HTTP error of a file-upload request is
\* produced, every temporary file created for the request has been deleted,
\* whether processing succeeded or failed part-way through.
C27_TempFilesRemoved ==
    request.pc = "responded" => tempdir = EmptyTempDir

\* ------------------------------------------- the backend: PocketBase records
\* the most records the collection holds when get_transactions is called
MaxRecords == 3

Users == {"u1", "u2"}

\* the order of two dates, as PocketBase orders their ISO texts
DateOrd(d) == d.year * 10000 + d.month * 100 + d.day

\* the records that pass the filter "user = '...'" and, when a hash is given,
\* "&& file_hash = '...'"
FilterRecords(records, user_id, hashes) ==
    SelectSeq(records, LAMBDA rec : rec.user = user_id /\ rec.file_hash \in hashes)

\* sort "-date": the records by descending date
RECURSIVE SortByDateDesc(_)
SortByDateDesc(records) ==
    IF records = <<>> THEN <<>>
    ELSE LET first == CHOOSE i \in DOMAIN records :
                          \A j \in DOMAIN records :
                              \/ DateOrd(records[j].date) < DateOrd(records[i].date)
                              \/ DateOrd(records[j].date) = DateOrd(records[i].date) /\ i <= j
         IN  <<records[first]>>
             \o SortByDateDesc(SubSeq(records, 1, first - 1)
                               \o SubSeq(records, first + 1, Len(records)))

\* collection.get_list(page, per_page) of PocketBase on the filtered and sorted
\* records: the page-th run of per_page records, and the number of all of them
GetList(records, page, per_page) ==
    [items |-> SubSeq(records, (page - 1) * per_page + 1,
                      IF page * per_page < Len(records) THEN page * per_page
                      ELSE Len(records)),
     total_items |-> Len(records)]

\* ------------------------------------------------ POST /api/upload-csv, steps
\* the requests that are served at once, or one after the other
UploadRequests == {1, 2}

\* the uploaded contents: two rows, one row, no header line
UploadContents == {<<Line_H1, Line_R1, Line_R2>>, <<Line_H1, Line_R2>>, <<Line_Title>>}

\* "T.CSV" and "t.txt"
UploadNames == {<<"T", ".", "C", "S", "V">>, <<"t", ".", "t", "x", "t">>}

\* s.endswith(suffix)
EndsWith(s, suffix) ==
    /\ Len(s) >= Len(suffix)
    /\ SubSeq(s, Len(s) - Len(suffix) + 1, Len(s)) = suffix

\* not file.filename or not file.filename.lower().endswith(".csv")
IsCsvName(filename) ==
    filename # <<>> /\ EndsWith(Lower(filename), <<".", "c", "s", "v">>)

\* hashlib.sha256(file_content).hexdigest(): a digest that no two of the
\* contents share
Sha256(file_content) == [sha256 |-> file_content]

\* the temporary file of a request
UploadTemp(r) == IF r = 1 THEN Path_a ELSE Path_b

\* len(existing_check.items) > 0
IsDuplicateMany(items) == Len(items) > 1
IsDuplicate(items) == Len(items) > 0

\* the responses of upload_csv
DuplicateResponse == [status |-> 200, upload_id |-> "duplicate", transaction_count |-> 0]
UploadedResponse(transaction_count) ==
    [status |-> 200, upload_id |-> "none", transaction_count |-> transaction_count]
ErrorResponse(code) == [status |-> code, upload_id |-> "", transaction_count |-> 0]

\* the locals of a request of a user before the first statement
NewUpload(user_id, filename, content) ==
    [user_id |-> user_id, filename |-> filename, content |-> content, pc |-> "received",
     file_hash |-> <<>>, transactions |-> <<>>, i |-> 0, transaction_count |-> 0,
     lookup |-> "none", stored_before |-> FALSE, response |-> <<>>]

\* the record that upload_csv creates for the i-th parsed transaction
TransactionData(req, r) ==
    [user |-> req.user_id, date |-> req.transactions[req.i + 1].date,
     amount |-> req.transactions[req.i + 1].amount,
     category |-> req.transactions[req.i + 1].category,
     file_hash |-> req.file_hash[1], row |-> req.i + 1, by |-> r]

InitUpload ==
    /\ SumIdle
    /\ AnalysisIdle
    /\ ConcIdle
    /\ ValueIdle
    /\ paths = ListPaths(<<>>)
    /\ files = FileSystem(<<>>, <<>>)
    /\ hash_seed \in HashSeeds
    /\ file_idx = 1
    /\ ctx = NoCsv
    /\ row_idx = 0
    /\ transactions = <<>>
    /\ all_tx = <<>>
    /\ parse_pc = "idle"
    /\ runs = <<>>
    /\ uploads = <<>>
    /\ tempdir = EmptyTempDir
    /\ request = NoRequest
    /\ response = <<>>
    /\ pb_transactions = <<>>
    /\ workers \in {1, 2}
    /\ up \in {[r \in UploadRequests |->
                   IF r = 1 THEN NewUpload("u1", <<"T", ".", "C", "S", "V">>, first)
                   ELSE NewUpload(user_id, filename, content)] :
               first \in UploadContents, user_id \in Users, filename \in UploadNames,
               content \in UploadContents}
    /\ query = NoQuery

\* one process serves one request at a time from the first statement after
\* "await file.read()" to the return: nothing in between awaits
InHandler(r) == up[r].pc \in {"lookup", "parse", "parsing", "create"}
MayRun(r) == workers > 1 \/ \A q \in UploadRequests \ {r} : ~InHandler(q)

\* the check of the file name, the temporary file and its hash (server.py 492-513)
UploadRead(r) ==
    /\ up[r].pc = "received"
    /\ MayRun(r)
    /\ IF ~IsCsvName(up[r].filename)
       THEN /\ up' = [up EXCEPT ![r].pc = "responded",
                                ![r].response = <<ErrorResponse(400)>>]
            /\ UNCHANGED <<tempdir, files>>
       ELSE /\ tempdir' = tempdir \cup {UploadTemp(r)}
            /\ files' = [files EXCEPT ![UploadTemp(r)] = up[r].content]
            /\ up' = [up EXCEPT ![r].pc = "lookup",
                                ![r].file_hash = <<Sha256(up[r].content)>>]
    /\ UNCHANGED <<pb_transactions, workers, query, sumVars, anVars, concVars, valueVars,
                   uploads, request, response, paths, hash_seed, file_idx, ctx,
                   row_idx, transactions, all_tx, parse_pc, runs>>

\* the request leaves the handler: "finally: os.unlink(temp.name)" (server.py 586-588)
UploadLeave(r, new) ==
    /\ tempdir' = tempdir \ {UploadTemp(r)}
    /\ up' = [up EXCEPT ![r] = [new EXCEPT !.pc = "responded"]]

\* the lookup of the file hash: it answers or it raises; a record found ends
\* the request, otherwise the file is parsed (server.py 516-549)
UploadLookup(r) ==
    /\ up[r].pc = "lookup"
    /\ MayRun(r)
    /\ LET matching == FilterRecords(pb_transactions, up[r].user_id, {up[r].file_hash[1]})
           existing_check == GetList(matching, 1, 1)
           seen == [up[r] EXCEPT !.stored_before = matching # <<>>]
       IN  \/ /\ IsDuplicate(existing_check.items)
              /\ UploadLeave(r, [seen EXCEPT !.lookup = "answered",
                                             !.response = <<DuplicateResponse>>])
           \/ /\ ~IsDuplicate(existing_check.items)
              /\ up' = [up EXCEPT ![r] = [seen EXCEPT !.lookup = "answered", !.pc = "parse"]]
              /\ UNCHANGED tempdir
           \/ /\ up' = [up EXCEPT ![r] = [seen EXCEPT !.lookup = "raised", !.pc = "parse"]]
              /\ UNCHANGED tempdir
    /\ UNCHANGED <<pb_transactions, workers, query, sumVars, anVars, concVars, valueVars,
                   uploads, request, response, parseVars>>

\* the call parse_csv([temp.name]) (server.py 543); parse_csv shares nothing
\* with another call of it, so that the calls are stepped one after the other
UploadCallParse(r) ==
    /\ up[r].pc = "parse"
    /\ MayRun(r)
    /\ parse_pc = "idle"
    /\ paths' = ListPaths(<<UploadTemp(r)>>)
    /\ file_idx' = 1
    /\ ctx' = NoCsv
    /\ row_idx' = 0
    /\ transactions' = <<>>
    /\ all_tx' = <<>>
    /\ parse_pc' = "files"
    /\ up' = [up EXCEPT ![r].pc = "parsing"]
    /\ UNCHANGED <<pb_transactions, workers, query, sumVars, anVars, concVars, valueVars,
                   serverVars, files, hash_seed, runs>>

\* parse_csv is over: its error becomes the response 500 (server.py 592-594),
\* its list is bound to transactions (server.py 543-550)
UploadParsed(r) ==
    /\ up[r].pc = "parsing"
    /\ parse_pc \in {"done", "raised"}
    /\ IF parse_pc = "raised"
       THEN UploadLeave(r, [up[r] EXCEPT !.response = <<ErrorResponse(500)>>])
       ELSE /\ up' = [up EXCEPT ![r].transactions = all_tx, ![r].pc = "create"]
            /\ UNCHANGED tempdir
    /\ parse_pc' = "idle"
    /\ UNCHANGED <<pb_transactions, workers, query, sumVars, anVars, concVars, valueVars,
                   uploads, request, response, paths, files, hash_seed, file_idx, ctx,
                   row_idx, transactions, all_tx, runs>>

\* one pass of the loop over the transactions: the record is created, or the
\* creation raises and the loop goes on (server.py 552-577)
UploadCreate(r) ==
    /\ up[r].pc = "create"
    /\ MayRun(r)
    /\ up[r].i < Len(up[r].transactions)
    /\ \/ /\ pb_transactions' = Append(pb_transactions, TransactionData(up[r], r))
          /\ up' = [up EXCEPT ![r].i = up[r].i + 1,
                              ![r].transaction_count = up[r].transaction_count + 1]
       \/ /\ UNCHANGED pb_transactions
          /\ up' = [up EXCEPT ![r].i = up[r].i + 1]
    /\ UNCHANGED <<workers, query, notBackend>>

\* the loop is over: the response with the count (server.py 579-588)
UploadReturn(r) ==
    /\ up[r].pc = "create"
    /\ MayRun(r)
    /\ up[r].i = Len(up[r].transactions)
    /\ UploadLeave(r, [up[r] EXCEPT
                          !.response = <<UploadedResponse(up[r].transaction_count)>>])
    /\ UNCHANGED <<pb_transactions, workers, query, sumVars, anVars, concVars, valueVars,
                   uploads, request, response, parseVars>>

NextUpload ==
    \/ \E r \in UploadRequests :
          \/ UploadRead(r)
          \/ UploadLookup(r)
          \/ UploadCallParse(r)
          \/ UploadParsed(r)
          \/ UploadCreate(r)
          \/ UploadReturn(r)
    \/ NextParse

SpecUpload == InitUpload /\ [][NextUpload]_vars

\* ---------------------------------------------- claims about the uploads
\* the records that request r created
CreatedBy(r) == SelectSeq(pb_transactions, LAMBDA rec : rec.by = r)

\* request r looked up its file hash, got an answer, and a transaction of its
\* user from a file with the same hash was stored then
LookedUpStoredFile(r) == up[r].lookup = "answered" /\ up[r].stored_before

\* C28: an upload_csv request whose content has the SHA-256 hash of a file from
\* which a transaction of the same user is already stored, and whose lookup
\* succeeds, creates no transaction record and returns upload_id "duplicate"
\* with transaction_count 0.
C28_DuplicateUpload ==
    \A r \in UploadRequests :
        LookedUpStoredFile(r) =>
            /\ up[r].pc = "responded"
            /\ up[r].response = <<DuplicateResponse>>
            /\ up[r].transaction_count = 0
            /\ CreatedBy(r) = <<>>

\* the first request stored the two transactions of its file, the second
\* request of the same user, with the same content, was answered "duplicate"
C28_Witness ==
    /\ up[1].response = <<UploadedResponse(2)>>
    /\ up[2].user_id = up[1].user_id
    /\ up[2].content = up[1].content
    /\ LookedUpStoredFile(2)
    /\ up[2].response = <<DuplicateResponse>>
    /\ Len(pb_transactions) = 2

\* C29: two concurrent upload_csv requests of one user with the same content
\* leave the transactions of the file in the collection at most once: no two
\* records for the same parsed row with the same file_hash.
C29_StoredAtMostOnce ==
    (up[1].user_id = up[2].user_id /\ up[1].content = up[2].content) =>
        \A i, j \in DOMAIN pb_transactions :
            (/\ pb_transactions[i].user = pb_transactions[j].user
             /\ pb_transactions[i].file_hash = pb_transactions[j].file_hash
             /\ pb_transactions[i].row = pb_transactions[j].row) => i = j

\* ... the same with every lookup answered
C29_StoredAtMostOnceAnswered ==
    (\A r \in UploadRequests : up[r].lookup # "raised") => C29_StoredAtMostOnce

\* ... the same in one server process
C29_StoredAtMostOnceOneWorker ==
    workers = 1 => C29_StoredAtMostOnceAnswered

\* ------------------------------------------------ GET /api/transactions, steps
\* the dates of the stored records: one day each
ListDates == {[year |-> 2024, month |-> 1, day |-> d] : d \in 1..MaxRecords}

\* records as upload_csv stores them
ListRecords ==
    [user : Users, date : ListDates, amount : {-50}, category : {Str_rent},
     file_hash : {Sha256(<<Line_H1, Line_R2>>)}, row : {1}, by : {0}]

\* the collections of up to MaxRecords records, no two of one day
ListStores ==
    {s \in SeqsUpTo(ListRecords, MaxRecords) :
        \A i, j \in DOMAIN s : s[i].date = s[j].date => i = j}

\* the file hashes of the records: get_transactions does not filter by hash
AnyHash(records) == {records[i].file_hash : i \in DOMAIN records}

\* the records of the user sorted by descending date: start_date, end_date,
\* category, account and type are None (server.py 265-281)
UserTransactions(records, user_id) ==
    SortByDateDesc(FilterRecords(records, user_id, AnyHash(records)))

\* the page that get_transactions asks for (server.py 284)
PageOf(offset, limit) == (offset \div limit) + 1

InitList ==
    /\ SumIdle
    /\ ParseIdle
    /\ AnalysisIdle
    /\ ConcIdle
    /\ ServerIdle
    /\ ValueIdle
    /\ pb_transactions \in ListStores
    /\ workers = 1
    /\ up = <<>>
    /\ query \in {[NoQuery EXCEPT !.pc = "received", !.user_id = "u1",
                                  !.limit = limit, !.offset = offset] :
                  limit \in 1..MaxRecords, offset \in 0..MaxRecords}

\* the filter and the call of get_list, which answers or raises (server.py 256-288,
\* 309-311)
QueryList ==
    /\ query.pc = "received"
    /\ \/ query' = [query EXCEPT
                       !.result = <<GetList(UserTransactions(pb_transactions, query.user_id),
                                            PageOf(query.offset, query.limit),
                                            query.limit)>>,
                       !.pc = "listed"]
       \/ query' = [query EXCEPT !.response = <<[status |-> 500]>>, !.pc = "responded"]
    /\ UNCHANGED <<pb_transactions, workers, up, notBackend>>

\* the items become the transactions of the response (server.py 290-307)
QueryReturn ==
    /\ query.pc = "listed"
    /\ query' = [query EXCEPT
                    !.response = <<[status |-> 200,
                                    transactions |-> query.result[1].items,
                                    total |-> query.result[1].total_items,
                                    offset |-> query.offset,
                                    limit |-> query.limit]>>,
                    !.pc = "responded"]
    /\ UNCHANGED <<pb_transactions, workers, up, notBackend>>

NextList == QueryList \/ QueryReturn

SpecList == InitList /\ [][NextList]_vars

\* ------------------------------------------------ claims about the listing
\* the records at the positions offset .. offset + limit - 1 (from 0)
Window(records, offset, limit) ==
    SubSeq(records, offset + 1,
           IF offset + limit < Len(records) THEN offset + limit ELSE Len(records))

Answered == query.pc = "responded" /\ query.response[1].status = 200

\* C30: for every limit >= 1 and offset >= 0, get_transactions returns the
\* records at the positions offset .. offset + limit - 1 of the transactions of
\* the user sorted by descending date, and echoes offset and limit, also when
\* offset is not a multiple of limit.
C30_Pagination ==
    Answered =>
        /\ query.response[1].transactions =
               Window(UserTransactions(pb_transactions, query.user_id),
                      query.offset, query.limit)
        /\ query.response[1].offset = query.offset
        /\ query.response[1].limit = query.limit

\* ... the same for the offsets that are multiples of limit
C30_PaginationAligned ==
    query.offset % query.limit = 0 => C30_Pagination

====
